---- MODULE Spec2Model ----
(***************************************************************************)
(* Model of the CBE expense dashboard: the batch processor of              *)
(* src/src/components/FileInput.jsx (processFile) together with the        *)
(* extraction helpers of src/src/lib/utils.js it calls.                    *)
(*                                                                         *)
(* JavaScript runs one continuation at a time: `cpu` names the processFile *)
(* run whose synchronous code is executing (0 when the event loop is       *)
(* idle).  A run gives the thread back only at its two awaits,             *)
(* `await file.text()` and `await fetchContent(link)`.                     *)
(*                                                                         *)
(* The pure functions of the dashboard are studied each under its own      *)
(* specification, which draws an argument `arg` and applies the function   *)
(* to it: SpecChart (aggregatedChartData of App.jsx), SpecTop (getTop* of  *)
(* utils.js), SpecPie (TransactionDistributionPieChart.jsx), SpecExtract   *)
(* (extractField), SpecRecord (the Transaction of one message), SpecDate   *)
(* (the date normalization of extractFromPdf, in both versions), SpecParty *)
(* (extractPayerReceiver, in both versions) and SpecSort (sortData).       *)
(*                                                                         *)
(* SpecLive is the batch processor with the fairness of the event loop.    *)
(* SpecTable is the state machine of the tables (TransactionTable.jsx and  *)
(* the three Top tables): header clicks, date filters and pagination.      *)
(***************************************************************************)
EXTENDS Integers, Sequences, FiniteSets, TLC

\* ------------------------------------------------------------------ bounds
\* Number of files the user submits (handleFileChange / handleDrop calls).
MaxRuns == 2
\* Total size of the submitted files, a file counting as one more than the
\* number of messages it holds.
MaxInput == 4
\* Length of the transaction list handed to the dashboard's aggregations.
MaxTxs == 3
\* Number of runs of equal transactions the list of the pie chart is made of.
MaxBlocks == 3
\* Length, in characters, of the receipt text handed to extractField.
MaxLen == 4
\* Total size of the submitted files in the specification with fairness.
MaxLiveInput == 3

Runs == 1..MaxRuns

\* ------------------------------------------------------- JavaScript values
Null == [t |-> "null"]
Undefined == [t |-> "undefined"]
NaN == [t |-> "NaN"]
Num(n) == [t |-> "num", v |-> n]
Str(s) == [t |-> "str", v |-> s]
\* A numeric string such as "1,500.00" (v is the number it denotes) and a
\* string holding separators only, such as "," or "."
NumStr(n) == [t |-> "numstr", v |-> n]
SepStr == [t |-> "sepstr"]
\* The string "YYYY-MM-DD" built by extractFromPdf
DateStr(y, m, d) == [t |-> "date", y |-> y, m |-> m, d |-> d]

\* JavaScript truthiness of the values above (null, undefined, NaN, "" and 0
\* are falsy).
Truthy(x) ==
    /\ x.t \notin {"null", "undefined", "NaN"}
    /\ (x.t = "num" => x.v # 0)
    /\ (x.t = "str" => x.v # "")

\* parseFloat(s.replace(/,/g, ''))
ParseFloat(s) ==
    IF s.t = "numstr" THEN Num(s.v) ELSE NaN

\* ------------------------------------------------------------ message text
\* A message text is described by what the two regular expressions of
\* processFile / extractFromSms find in it:
\*   balance : the capture of /Your Current Balance is ETB\s*([\d,\.]+)/
\*             (Null when the phrase does not match)
\*   link    : the first match of /(https?:\/\/\S+)/, as host and rest
\*             (Null when there is none)
Text(balance, link) == [t |-> "text", balance |-> balance, link |-> link]
Url(host, rest) == [t |-> "url", host |-> host, rest |-> rest]

CbeLink == Url("apps.cbe.com.et", "/?id=FT1")
OtherLink == Url("example.com", "/x")
\* Another host, with the bank's domain in the query string
LookalikeLink == Url("example.com", "/?ref=cbe.com.et")

\* extractFromSms(text)
ExtractFromSms(text) == text.link

\* link.includes("cbe.com.et")
IncludesCbe(link) ==
    \/ link.host \in {"cbe.com.et", "apps.cbe.com.et"}
    \/ link.rest \in {"/cbe.com.et", "/?ref=cbe.com.et"}

\* The balance stated by the message: lines 78-83 of processFile
MessageBalance(text) ==
    IF text.balance = Null THEN Null ELSE ParseFloat(text.balance)

\* Messages of a batch: no text, a truthy text that is no string (its .match
\* call throws), and strings with or without balance and link, the link
\* being to the bank's host or to another one.
NoTextMsg == [text |-> Undefined]
BadTextMsg == [text |-> Num(5)]
Messages ==
    { NoTextMsg, BadTextMsg,
      [text |-> Text(NumStr(500), Null)],
      [text |-> Text(Null, OtherLink)],
      [text |-> Text(NumStr(500), CbeLink)],
      [text |-> Text(Null, CbeLink)],
      [text |-> Text(Null, LookalikeLink)] }

IsString(x) == x.t = "text"

\* ------------------------------------------------------------ receipt text
\* A receipt text is described by what the anchor extractions of
\* extractFromPdf (lines 90-95) return on it.
RawDate(a, b, y, clock) == [t |-> "rawdate", a |-> a, b |-> b, y |-> y, clock |-> clock]

Doc(amountStr, dateStr, receiver, payer, reason, totalAmountStr) ==
    [amountStr |-> amountStr, dateStr |-> dateStr, receiver |-> receiver,
     payer |-> payer, reason |-> reason, totalAmountStr |-> totalAmountStr]

EmptyDoc == Doc(Null, Null, Null, Null, Null, Null)
Receipt(dateStr) ==
    Doc(NumStr(1500), dateStr, Str("Abebe"), Str("Kebede"), Str("Rent"), NumStr(1510))

Docs ==
    { EmptyDoc,
      Receipt(RawDate(14, 1, 2024, Str("10:15:00 AM"))),
      Receipt(RawDate(3, 2, 2024, Str("10:15:00 AM"))),
      Receipt(RawDate(1, 14, 2024, Str("10:15:00 AM"))) }

\* lines 97-106: [day, month, year] = dateMatch[1].split('/')
FormatDate(dateStr) ==
    IF Truthy(dateStr) /\ dateStr.t = "rawdate"
    THEN DateStr(dateStr.y, dateStr.b, dateStr.a)
    ELSE Null

\* line 111: dateStr ? dateStr.match(/\d{1,2}:\d{2}:\d{2}\s*[AP]M/)?.[0] : null
ExtractTime(dateStr) ==
    IF dateStr.t \in {"null", "undefined"} THEN Null
    ELSE IF dateStr.t = "rawdate" /\ dateStr.clock # Null THEN dateStr.clock
    ELSE Undefined

\* extractFromPdf(text): the object of lines 108-117 (it has no currentBalance)
ExtractFromPdf(doc) ==
    [amount |-> IF Truthy(doc.amountStr) THEN ParseFloat(doc.amountStr) ELSE Null,
     date |-> FormatDate(doc.dateStr),
     time |-> ExtractTime(doc.dateStr),
     receiver |-> doc.receiver,
     payer |-> doc.payer,
     reason |-> doc.reason,
     totalAmount |-> IF Truthy(doc.totalAmountStr) THEN ParseFloat(doc.totalAmountStr) ELSE Null]

\* Reading a property of an object: undefined when the object has none
Get(obj, key) == IF key \in DOMAIN obj THEN obj[key] ELSE Undefined

\* fetchContent(url) returns {type: 'pdf', text} or {type: 'error', message}
FetchResults ==
    { [type |-> "error"] } \cup { [type |-> "pdf", text |-> d] : d \in Docs }

\* ------------------------------------------------------------------- dates
\* new Date(x) for the values a Transaction's date can hold: new Date(null)
\* is the epoch, a "YYYY-MM-DD" string parses only with a month of 1..12 and
\* a day of 1..31, anything else is an Invalid Date (its time value is NaN).
IsInvalidDate(x) ==
    CASE x.t = "null" -> FALSE
      [] x.t = "date" -> ~(x.m \in 1..12 /\ x.d \in 1..31)
      [] OTHER -> TRUE

\* The time value of a valid date, in days of a 31-day-month calendar (only
\* the order of time values matters to the code modelled here).
DateTime(x) ==
    IF x.t = "null" THEN 0
    ELSE ((x.y - 1970) * 12 + (x.m - 1)) * 31 + (x.d - 1)

\* The comparator of line 118, (a, b) => new Date(b.date) - new Date(a.date),
\* as Array.prototype.sort sees it: a NaN result counts as +0.
CompareDateDesc(a, b) ==
    IF IsInvalidDate(a.date) \/ IsInvalidDate(b.date) THEN 0
    ELSE DateTime(b.date) - DateTime(a.date)

\* ------------------------------------------------------ Array.prototype.sort
\* With a consistent comparator the result is the stable sort.  The comparator
\* above is not consistent when a date is invalid, and the order is then the
\* engine's: two engines' algorithms for short arrays are modelled, V8's
\* (count the leading run, then binary insertion) and plain insertion sort.
Reverse(s) == [i \in 1..Len(s) |-> s[Len(s) + 1 - i]]

\* CountAndMakeRun: the length of the run starting at s[1]; idx is the next
\* element to look at.
RECURSIVE RunEnd(_, _, _)
RunEnd(s, idx, descending) ==
    IF idx > Len(s) THEN idx - 1
    ELSE LET order == CompareDateDesc(s[idx], s[idx - 1])
         IN IF descending
            THEN IF order >= 0 THEN idx - 1 ELSE RunEnd(s, idx + 1, descending)
            ELSE IF order < 0 THEN idx - 1 ELSE RunEnd(s, idx + 1, descending)

\* The binary search of BinaryInsertionSort, on 0-based bounds left, right
RECURSIVE BinarySearch(_, _, _, _)
BinarySearch(s, pivot, left, right) ==
    IF left >= right THEN left
    ELSE LET mid == left + ((right - left) \div 2)
         IN IF CompareDateDesc(pivot, s[mid + 1]) < 0
            THEN BinarySearch(s, pivot, left, mid)
            ELSE BinarySearch(s, pivot, mid + 1, right)

\* s with the element at position start moved to 0-based position left
InsertAt(s, start, left) ==
    SubSeq(s, 1, left) \o <<s[start]>> \o SubSeq(s, left + 1, start - 1)
        \o SubSeq(s, start + 1, Len(s))

RECURSIVE BinaryInsertionSort(_, _)
BinaryInsertionSort(s, start) ==
    IF start > Len(s) THEN s
    ELSE BinaryInsertionSort(
            InsertAt(s, start, BinarySearch(s, s[start], 0, start - 1)), start + 1)

TimSort(s) ==
    IF Len(s) < 2 THEN s
    ELSE LET descending == CompareDateDesc(s[2], s[1]) < 0
             run == RunEnd(s, 3, descending)
             made == IF descending
                     THEN Reverse(SubSeq(s, 1, run)) \o SubSeq(s, run + 1, Len(s))
                     ELSE s
         IN BinaryInsertionSort(made, run + 1)

\* Insertion sort: the position of s[start] is found from the right
RECURSIVE LinearSearch(_, _, _)
LinearSearch(s, pivot, j) ==
    IF j >= 1 /\ CompareDateDesc(s[j], pivot) > 0
    THEN LinearSearch(s, pivot, j - 1)
    ELSE j

RECURSIVE InsertionSort(_, _)
InsertionSort(s, start) ==
    IF start > Len(s) THEN s
    ELSE InsertionSort(
            InsertAt(s, start, LinearSearch(s, s[start], start - 1)), start + 1)

\* transactions.sort((a, b) => new Date(b.date) - new Date(a.date))
SortOutcomes(s) == { TimSort(s), InsertionSort(s, 2) }

\* -------------------------------------------------------------------- files
\* A submitted file: its name and what JSON.parse makes of its text
InvalidJson == [t |-> "invalid"]
JsonObject == [t |-> "object"]
JsonArray(items) == [t |-> "array", items |-> items]
File(name, content) == [name |-> name, content |-> content]

\* file.name.toLowerCase().endsWith(".json")
EndsWithJson(name) == name \in {"sms.json", "SMS.JSON"}

\* Array.isArray(parsedData)
IsArray(content) == content.t = "array"

SeqsUpTo(S, n) == UNION { [1..k -> S] : k \in 0..n }

\* The files of size n at most
Files(n) ==
    IF n < 1 THEN {}
    ELSE { File("sms.txt", InvalidJson), File("sms.json", InvalidJson),
           File("sms.json", JsonObject) }
            \cup { File("sms.json", JsonArray(items)) :
                       items \in SeqsUpTo(Messages, n - 1) }

NoFile == File("", InvalidJson)

\* The texts of setError
ErrNotJson == "Please select a JSON file"
ErrInvalidFormat == "Invalid JSON format: Expected an array of messages."
ErrFetch == "Error fetching or parsing PDF"
ErrNoTransactions == "No transactions found in the file."
ErrProcessing == "Error processing file. Please ensure it is a valid JSON file."

\* -------------------------------------------------------------------- state
VARIABLES
    pc,              \* pc[r]: where run r of processFile stands
    input,           \* input[r]: the file given to run r
    index,           \* index[r]: the message the loop of run r is at (from 1)
    transactions,    \* transactions[r]: the local array of run r (line 73)
    appTransactions, \* App's transactions state, written by setTransactions
    error,           \* FileInput's error state
    loading,         \* FileInput's loading state
    progress,        \* FileInput's progress state
    cpu,             \* the run whose synchronous code is executing, or 0
    inflight,        \* the fetchContent calls that have not returned
    fetched,         \* fetched[r]: the messages run r called fetchContent for
    responses,       \* responses[r]: the result types fetchContent returned
    errorCalls,      \* errorCalls[r]: the arguments of run r's setError calls
    txCalls,         \* txCalls[r]: the arguments of run r's setTransactions calls
    progressCalls,   \* progressCalls[r]: the arguments of run r's setProgress calls
    overlap,         \* a file was submitted while another run awaited a fetch
    arg,             \* the argument of the function under study
    ret,             \* <<its result>> once it was applied
    component,       \* the table component rendered, or "none"
    tableTransactions, \* its transactions prop
    sortColumn,      \* the table's sortColumn state
    sortDirection,   \* the table's sortDirection state
    filterStart,     \* TransactionTable's filterStart state
    filterEnd,       \* TransactionTable's filterEnd state
    currentPage,     \* TransactionTable's currentPage state
    itemsPerPage,    \* TransactionTable's itemsPerPage state
    lastClick        \* the header click that was the last event, if it was one

batchVars ==
    <<pc, input, index, transactions, appTransactions, error, loading, progress,
      cpu, inflight, fetched, responses, errorCalls, txCalls, progressCalls,
      overlap>>

tableVars ==
    <<component, tableTransactions, sortColumn, sortDirection, filterStart,
      filterEnd, currentPage, itemsPerPage, lastClick>>

vars == <<batchVars, arg, ret, tableVars>>

Items(r) == IF IsArray(input[r].content) THEN input[r].content.items ELSE <<>>

\* The size of the files submitted so far
Submitted == { r \in Runs : pc[r] # "idle" }
RECURSIVE TotalSize(_)
TotalSize(S) ==
    IF S = {} THEN 0
    ELSE LET r == CHOOSE x \in S : TRUE IN 1 + Len(Items(r)) + TotalSize(S \ {r})

NoBatch ==
    /\ pc = [r \in Runs |-> "idle"]
    /\ input = [r \in Runs |-> NoFile]
    /\ index = [r \in Runs |-> 1]
    /\ transactions = [r \in Runs |-> <<>>]
    /\ appTransactions = <<>>
    /\ error = ""
    /\ loading = FALSE
    /\ progress = 0
    /\ cpu = 0
    /\ inflight = {}
    /\ fetched = [r \in Runs |-> <<>>]
    /\ responses = [r \in Runs |-> <<>>]
    /\ errorCalls = [r \in Runs |-> <<>>]
    /\ txCalls = [r \in Runs |-> <<>>]
    /\ progressCalls = [r \in Runs |-> <<>>]
    /\ overlap = FALSE

\* No header was clicked
NoClick == [column |-> "", before |-> "asc", repeat |-> FALSE]

\* No table is rendered: the state variables hold the initial values of
\* TransactionTable.jsx lines 14-19
NoTable ==
    /\ component = "none"
    /\ tableTransactions = <<>>
    /\ sortColumn = ""
    /\ sortDirection = "asc"
    /\ filterStart = Str("")
    /\ filterEnd = Str("")
    /\ currentPage = 1
    /\ itemsPerPage = 10
    /\ lastClick = NoClick

Init ==
    /\ NoBatch
    /\ NoTable
    /\ arg = <<>>
    /\ ret = <<>>

\* The percentage computed from index instead of index + 1
PercentageOfIndex(done, n) == ((2 * 90 * (done - 1) + n) \div (2 * n)) + 10

\* lines 112-114: Math.round(((index + 1) / parsedData.length) * 90) + 10,
\* with done = index + 1 messages processed out of n
Percentage(done, n) == ((2 * 90 * done + n) \div (2 * n)) + 10

\* The merge with its test inverted: the document's balance preferred
MergeBalanceInverted(transactionData, currentBalance) ==
    IF currentBalance = Null
    THEN currentBalance
    ELSE Get(transactionData, "currentBalance")

\* lines 101-109: the Transaction pushed for a field set and the message's
\* balance (msg, the message's position in the file, is kept to tell the
\* records of a batch apart)
MergeBalance(transactionData, currentBalance) ==
    IF currentBalance # Null
    THEN currentBalance
    ELSE Get(transactionData, "currentBalance")

Transaction(transactionData, currentBalance, msg) ==
    [amount |-> transactionData.amount,
     date |-> transactionData.date,
     time |-> transactionData.time,
     receiver |-> transactionData.receiver,
     payer |-> transactionData.payer,
     reason |-> transactionData.reason,
     totalAmount |-> transactionData.totalAmount,
     currentBalance |-> MergeBalance(transactionData, currentBalance),
     msg |-> msg]

\* handleFileChange / handleDrop -> processFile, up to `await file.text()`
\* (lines 22-35, 50-63)
Submit(r, file) ==
    /\ cpu = 0
    /\ pc[r] = "idle"
    /\ \A q \in Runs : q < r => pc[q] # "idle"
    /\ input' = [input EXCEPT ![r] = file]
    /\ overlap' = (overlap \/ \E q \in Runs : pc[q] = "fetching")
    /\ IF ~EndsWithJson(file.name)
       THEN /\ error' = ErrNotJson
            /\ errorCalls' = [errorCalls EXCEPT ![r] = <<ErrNotJson>>]
            /\ pc' = [pc EXCEPT ![r] = "rejected"]
            /\ UNCHANGED <<appTransactions, loading, progress, progressCalls, txCalls>>
       ELSE /\ loading' = TRUE
            /\ error' = ""
            /\ errorCalls' = [errorCalls EXCEPT ![r] = <<"">>]
            /\ appTransactions' = <<>>
            /\ txCalls' = [txCalls EXCEPT ![r] = << <<>> >>]
            /\ progress' = 5
            /\ progressCalls' = [progressCalls EXCEPT ![r] = Append(@, 5)]
            /\ pc' = [pc EXCEPT ![r] = "reading"]
    /\ UNCHANGED <<index, transactions, cpu, inflight, fetched, responses>>
    /\ UNCHANGED <<arg, ret, tableVars>>

\* The catch block without the finally block
ThrowWithoutFinally(r, calls) ==
    /\ error' = ErrProcessing
    /\ errorCalls' = [errorCalls EXCEPT ![r] = Append(@, ErrProcessing)]
    /\ loading' = loading
    /\ progress' = progress
    /\ progressCalls' = [progressCalls EXCEPT ![r] = calls]
    /\ pc' = [pc EXCEPT ![r] = "done"]
    /\ cpu' = 0

\* The catch and finally blocks (lines 133-139) ending run r, whose
\* setProgress calls so far are `calls`
Throw(r, calls) ==
    /\ error' = ErrProcessing
    /\ errorCalls' = [errorCalls EXCEPT ![r] = Append(@, ErrProcessing)]
    /\ loading' = FALSE
    /\ progress' = 0
    /\ progressCalls' = [progressCalls EXCEPT ![r] = Append(calls, 0)]
    /\ pc' = [pc EXCEPT ![r] = "done"]
    /\ cpu' = 0

\* The Array.isArray test left out: iterating what is no array throws
ParseOutcomeUnchecked(content) ==
    IF IsArray(content) THEN "array" ELSE "throw"

\* lines 66-71: JSON.parse throws, or gives something that is no array, or
\* gives an array
ParseOutcome(content) ==
    IF content = InvalidJson THEN "throw"
    ELSE IF ~IsArray(content) THEN "notArray"
    ELSE "array"

\* processFile resumed after `await file.text()`: lines 63-74
TextRead(r) ==
    /\ cpu = 0
    /\ pc[r] = "reading"
    /\ IF ParseOutcome(input[r].content) = "throw"
       THEN /\ Throw(r, Append(progressCalls[r], 10))
            /\ UNCHANGED <<transactions>>
       ELSE IF ParseOutcome(input[r].content) = "notArray"
       THEN /\ error' = ErrInvalidFormat
            /\ errorCalls' = [errorCalls EXCEPT ![r] = Append(@, ErrInvalidFormat)]
            /\ loading' = FALSE
            /\ progress' = 0
            /\ progressCalls' = [progressCalls EXCEPT ![r] = Append(Append(@, 10), 0)]
            /\ pc' = [pc EXCEPT ![r] = "done"]
            /\ cpu' = 0
            /\ UNCHANGED <<transactions>>
       ELSE /\ transactions' = [transactions EXCEPT ![r] = <<>>]
            /\ progress' = 10
            /\ progressCalls' = [progressCalls EXCEPT ![r] = Append(@, 10)]
            /\ pc' = [pc EXCEPT ![r] = "loop"]
            /\ cpu' = r
            /\ UNCHANGED <<error, errorCalls, loading>>
    /\ UNCHANGED <<input, index, appTransactions, inflight, fetched, responses,
                   txCalls, overlap>>
    /\ UNCHANGED <<arg, ret, tableVars>>

\* lines 112-116: the end of one iteration of the loop
NextMessage(r) ==
    /\ progress' = Percentage(index[r], Len(Items(r)))
    /\ progressCalls' = [progressCalls EXCEPT ![r] =
            Append(@, Percentage(index[r], Len(Items(r))))]
    /\ index' = [index EXCEPT ![r] = @ + 1]

\* Any link followed, whatever its address
QualifiesAnyLink(link) == Truthy(link)

\* line 88: link && link.includes("cbe.com.et")
Qualifies(link) == Truthy(link) /\ IncludesCbe(link)

\* fetchContent(link) called without `await`: the loop goes on with the
\* pending promise, whose type is undefined
AwaitFetchMissing(r) ==
    /\ inflight' = inflight \cup {[run |-> r, msg |-> index[r]]}
    /\ fetched' = [fetched EXCEPT ![r] = Append(@, index[r])]
    /\ error' = ErrFetch
    /\ errorCalls' = [errorCalls EXCEPT ![r] = Append(@, ErrFetch)]
    /\ progress' = Percentage(index[r], Len(Items(r)))
    /\ progressCalls' = [progressCalls EXCEPT ![r] =
            Append(@, Percentage(index[r], Len(Items(r))))]
    /\ index' = [index EXCEPT ![r] = @ + 1]
    /\ UNCHANGED <<pc, cpu, loading>>

\* lines 89-92: fetchContent(link) is called and awaited
AwaitFetch(r) ==
    /\ inflight' = inflight \cup {[run |-> r, msg |-> index[r]]}
    /\ fetched' = [fetched EXCEPT ![r] = Append(@, index[r])]
    /\ pc' = [pc EXCEPT ![r] = "fetching"]
    /\ cpu' = 0
    /\ UNCHANGED <<index, progress, progressCalls, error, errorCalls, loading>>

\* One iteration of the loop up to its end or to `await fetchContent(link)`:
\* lines 76-92 and 101-116
ProcessMessage(r) ==
    /\ cpu = r
    /\ pc[r] = "loop"
    /\ index[r] <= Len(Items(r))
    /\ LET text == Items(r)[index[r]].text
       IN IF ~Truthy(text)
          THEN /\ NextMessage(r)
               /\ UNCHANGED <<pc, cpu, error, errorCalls, loading, inflight, fetched>>
          ELSE IF ~IsString(text)
          THEN /\ Throw(r, progressCalls[r])
               /\ UNCHANGED <<index, inflight, fetched>>
          ELSE LET link == ExtractFromSms(text)
               IN IF Qualifies(link)
                  THEN AwaitFetch(r)
                  ELSE /\ NextMessage(r)
                       /\ UNCHANGED <<pc, cpu, error, errorCalls, loading, inflight,
                                      fetched>>
    /\ UNCHANGED <<input, transactions, appTransactions, responses, txCalls, overlap>>
    /\ UNCHANGED <<arg, ret, tableVars>>

\* lines 93-94 and 101-116: the fetch gave a document
FetchSucceeded(r, result) ==
    /\ transactions' = [transactions EXCEPT ![r] =
            Append(@, Transaction(ExtractFromPdf(result.text),
                                  MessageBalance(Items(r)[index[r]].text), index[r]))]
    /\ NextMessage(r)
    /\ pc' = [pc EXCEPT ![r] = "loop"]
    /\ cpu' = r
    /\ UNCHANGED <<error, errorCalls, loading>>

\* An error result treated as an exception: the run ends in the catch block
FetchFailedAborts(r) ==
    /\ error' = ErrProcessing
    /\ errorCalls' = [errorCalls EXCEPT ![r] = Append(@, ErrProcessing)]
    /\ loading' = FALSE
    /\ progress' = 0
    /\ progressCalls' = [progressCalls EXCEPT ![r] = Append(@, 0)]
    /\ pc' = [pc EXCEPT ![r] = "done"]
    /\ cpu' = 0
    /\ UNCHANGED <<transactions, index>>

\* lines 95-98 and 101-116: the fetch gave an error result
FetchFailed(r) ==
    /\ error' = ErrFetch
    /\ errorCalls' = [errorCalls EXCEPT ![r] = Append(@, ErrFetch)]
    /\ NextMessage(r)
    /\ pc' = [pc EXCEPT ![r] = "loop"]
    /\ cpu' = r
    /\ UNCHANGED <<transactions, loading>>

\* processFile resumed after `await fetchContent(link)`: lines 92-116
FetchReturn(r, result) ==
    /\ cpu = 0
    /\ pc[r] = "fetching"
    /\ [run |-> r, msg |-> index[r]] \in inflight
    /\ inflight' = inflight \ {[run |-> r, msg |-> index[r]]}
    /\ responses' = [responses EXCEPT ![r] = Append(@, result.type)]
    /\ IF result.type = "pdf" THEN FetchSucceeded(r, result) ELSE FetchFailed(r)
    /\ UNCHANGED <<input, appTransactions, fetched, txCalls, overlap>>
    /\ UNCHANGED <<arg, ret, tableVars>>

\* The zero-transactions report with its test inverted
ReportResultInverted(r, sorted) ==
    IF Len(sorted) # 0
    THEN /\ error' = ErrNoTransactions
         /\ errorCalls' = [errorCalls EXCEPT ![r] = Append(@, ErrNoTransactions)]
    ELSE UNCHANGED <<error, errorCalls>>

\* lines 121-132: the zero-transactions report
ReportResult(r, sorted) ==
    IF Len(sorted) = 0
    THEN /\ error' = ErrNoTransactions
         /\ errorCalls' = [errorCalls EXCEPT ![r] = Append(@, ErrNoTransactions)]
    ELSE UNCHANGED <<error, errorCalls>>

\* After the loop: lines 118-139
Finish(r) ==
    /\ cpu = r
    /\ pc[r] = "loop"
    /\ index[r] > Len(Items(r))
    /\ \E sorted \in SortOutcomes(transactions[r]) :
        /\ transactions' = [transactions EXCEPT ![r] = sorted]
        /\ appTransactions' = sorted
        /\ txCalls' = [txCalls EXCEPT ![r] = Append(@, sorted)]
        /\ ReportResult(r, sorted)
    /\ loading' = FALSE
    /\ progress' = 0
    /\ progressCalls' = [progressCalls EXCEPT ![r] = Append(@, 0)]
    /\ pc' = [pc EXCEPT ![r] = "done"]
    /\ cpu' = 0
    /\ UNCHANGED <<input, index, inflight, fetched, responses, overlap>>
    /\ UNCHANGED <<arg, ret, tableVars>>

Next ==
    \/ \E r \in Runs : \E file \in Files(MaxInput - TotalSize(Submitted)) : Submit(r, file)
    \/ \E r \in Runs : TextRead(r)
    \/ \E r \in Runs : ProcessMessage(r)
    \/ \E r \in Runs : \E result \in FetchResults : FetchReturn(r, result)
    \/ \E r \in Runs : Finish(r)

Spec == Init /\ [][Next]_vars

\* ------------------------------------------------------------ monthly chart
\* aggregatedChartData of App.jsx (lines 54-84), a pure function of the
\* transaction list.  It is studied on its own: `arg` is the list, `ret`
\* holds the chart rows once the memo was computed.
Tx(date, amount, receiver, payer, reason, currentBalance) ==
    [date |-> date, amount |-> amount, receiver |-> receiver, payer |-> payer,
     reason |-> reason, currentBalance |-> currentBalance]

\* Transactions as processFile can emit them: dated in three months, with an
\* unparsable date ("2024-14-01"), with no date, with an amount that is
\* negative, null or NaN, with and without a balance.
ChartSamples ==
    { Tx(DateStr(2024, 1, 14), Num(100), Str("A"), Str("P"), Str("Rent"), Num(500)),
      Tx(DateStr(2024, 1, 20), Num(-30), Str("A"), Str("P"), Str("Fee"), Num(480)),
      Tx(DateStr(2024, 2, 3), Num(20), Str("B"), Str("P"), Str("Rent"), Num(460)),
      Tx(DateStr(2023, 12, 5), Num(100), Str("B"), Str("P"), Str("Rent"), Undefined),
      Tx(DateStr(2024, 14, 1), Num(100), Str("A"), Str("P"), Str("Rent"), Num(500)),
      Tx(Null, Num(100), Null, Null, Null, Num(500)),
      Tx(DateStr(2024, 1, 14), Null, Str("A"), Str("P"), Str("Rent"), Null),
      Tx(DateStr(2024, 2, 3), NaN, Str("A"), Str("P"), Str("Rent"), NaN) }

\* line 63: date.toISOString().slice(0, 7), the "YYYY-MM" of a valid date
\* (of the epoch for new Date(null))
MonthOf(date) ==
    IF date.t = "null" THEN [y |-> 1970, m |-> 1] ELSE [y |-> date.y, m |-> date.m]

\* line 78: monthA.localeCompare(monthB) < 0 on two "YYYY-MM" strings
MonthBefore(a, b) == a.y < b.y \/ (a.y = b.y /\ a.m < b.m)

\* Every amount counted, whatever its sign
ExpenseOfAnySign(amount) == IF amount.t = "num" THEN amount.v ELSE 0

\* lines 69-71: what `if (transaction.amount > 0) expenses += amount` adds
Expense(amount) == IF amount.t = "num" /\ amount.v > 0 THEN amount.v ELSE 0

\* lines 57-74: the reducer.  acc holds the entries of the accumulator
\* object in the order their keys were created.
ChartReducer(acc, transaction) ==
    IF IsInvalidDate(transaction.date) THEN acc
    ELSE LET month == MonthOf(transaction.date)
             known == \E i \in 1..Len(acc) : acc[i].month = month
             acc1 == IF known THEN acc
                     ELSE Append(acc, [month |-> month, expenses |-> 0, balance |-> Null])
         IN [i \in 1..Len(acc1) |->
                IF acc1[i].month = month
                THEN [month |-> month,
                      expenses |-> acc1[i].expenses + Expense(transaction.amount),
                      balance |-> transaction.currentBalance]
                ELSE acc1[i]]

\* transactions.reduce(reducer, {}) over the list txs
RECURSIVE ChartReduce(_, _, _)
ChartReduce(acc, txs, i) ==
    IF i > Len(txs) THEN acc
    ELSE ChartReduce(ChartReducer(acc, txs[i]), txs, i + 1)

\* line 78: the entries sorted by month (the keys are distinct, so the
\* result does not depend on the sorting algorithm)
RECURSIVE SortByMonth(_)
SortByMonth(entries) ==
    IF Len(entries) <= 1 THEN entries
    ELSE LET rest == SortByMonth(SubSeq(entries, 1, Len(entries) - 1))
             e == entries[Len(entries)]
             k == Cardinality({ i \in 1..Len(rest) : ~MonthBefore(e.month, rest[i].month) })
         IN SubSeq(rest, 1, k) \o <<e>> \o SubSeq(rest, k + 1, Len(rest))

\* lines 54-84
AggregatedChartData(txs) ==
    IF Len(txs) = 0 THEN <<>>
    ELSE LET sorted == SortByMonth(ChartReduce(<<>>, txs, 1))
         IN [i \in 1..Len(sorted) |->
                [month |-> sorted[i].month,
                 Expenses |-> sorted[i].expenses,
                 Balance |-> sorted[i].balance]]

\* App renders with a transaction list: the memo of line 54 is computed
InitChart ==
    /\ NoBatch
    /\ NoTable
    /\ arg \in SeqsUpTo(ChartSamples, MaxTxs)
    /\ ret = <<>>

ComputeChart ==
    /\ ret = <<>>
    /\ ret' = <<AggregatedChartData(arg)>>
    /\ UNCHANGED <<batchVars, arg, tableVars>>

NextChart == ComputeChart

SpecChart == InitChart /\ [][NextChart]_vars

\* ------------------------------------------------------------ top-N tables
\* getTopRecipients, getTopSenders and getTopReasons of utils.js (lines
\* 140-208).  `arg` is [transactions, limit], `ret` the rows returned.
DefaultLimit == 25

\* Transactions with two recipients, payers and reasons, with a negative and
\* a null amount, and one that names no party and no reason.
TopSamples ==
    { Tx(DateStr(2024, 1, 14), Num(10), Str("A"), Str("P"), Str("Rent"), Num(500)),
      Tx(DateStr(2024, 1, 15), Num(5), Str("A"), Str("Q"), Str("Fee"), Num(495)),
      Tx(DateStr(2024, 1, 16), Num(20), Str("B"), Str("Q"), Str("Fee"), Num(475)),
      Tx(DateStr(2024, 1, 17), Num(-30), Str("B"), Str("P"), Str("Rent"), Num(505)),
      Tx(DateStr(2024, 1, 18), Num(10), Null, Null, Null, Num(495)),
      Tx(DateStr(2024, 1, 19), Null, Str("A"), Str("P"), Str("Rent"), Null) }

\* Math.abs(x): Math.abs(null) is 0
Abs(x) ==
    CASE x.t = "num" -> Num(IF x.v < 0 THEN -x.v ELSE x.v)
      [] x.t = "null" -> Num(0)
      [] OTHER -> NaN

\* (x || 0)
OrZero(x) == IF Truthy(x) THEN x ELSE Num(0)

\* a + b for a number a: null counts as 0, NaN and undefined give NaN
Plus(a, b) ==
    CASE a.t = "NaN" -> NaN
      [] b.t = "num" -> Num(a.v + b.v)
      [] b.t = "null" -> a
      [] OTHER -> NaN

\* The forEach loops of lines 145-150, 168-173 and 191-196: the counts and
\* totals objects, as entries [key, count, total] in the order the keys were
\* created.  field is the grouping attribute, abs tells whether the amount
\* goes through Math.abs.
RECURSIVE GroupBy(_, _, _, _, _)
GroupBy(entries, txs, i, field, abs) ==
    IF i > Len(txs) THEN entries
    ELSE LET tx == txs[i]
             key == tx[field]
             added == IF abs THEN Abs(tx.amount) ELSE tx.amount
             known == \E j \in 1..Len(entries) : entries[j].key = key
             entries1 == IF known THEN entries
                         ELSE Append(entries, [key |-> key, count |-> 0, total |-> Undefined])
             entries2 == [j \in 1..Len(entries1) |->
                            IF entries1[j].key = key
                            THEN [key |-> key,
                                  count |-> entries1[j].count + 1,
                                  total |-> Plus(OrZero(entries1[j].total), added)]
                            ELSE entries1[j]]
         IN GroupBy(IF Truthy(key) THEN entries2 ELSE entries, txs, i + 1, field, abs)

\* .sort(([, countA], [, countB]) => countB - countA): the stable sort by
\* descending count
RECURSIVE SortByCount(_)
SortByCount(entries) ==
    IF Len(entries) <= 1 THEN entries
    ELSE LET rest == SortByCount(SubSeq(entries, 1, Len(entries) - 1))
             e == entries[Len(entries)]
             k == Cardinality({ j \in 1..Len(rest) : rest[j].count >= e.count })
         IN SubSeq(rest, 1, k) \o <<e>> \o SubSeq(rest, k + 1, Len(rest))

\* .slice(0, limit)
Slice(s, limit) == SubSeq(s, 1, IF limit < Len(s) THEN limit ELSE Len(s))

\* lines 140-161
GetTopRecipients(txs, limit) ==
    LET sortedRecipients == Slice(SortByCount(GroupBy(<<>>, txs, 1, "receiver", FALSE)), limit)
    IN [j \in 1..Len(sortedRecipients) |->
            [recipient |-> sortedRecipients[j].key,
             amount |-> sortedRecipients[j].total,
             count |-> sortedRecipients[j].count]]

\* lines 163-184
GetTopSenders(txs, limit) ==
    LET sortedSenders == Slice(SortByCount(GroupBy(<<>>, txs, 1, "payer", TRUE)), limit)
    IN [j \in 1..Len(sortedSenders) |->
            [sender |-> sortedSenders[j].key,
             amount |-> sortedSenders[j].total,
             count |-> sortedSenders[j].count]]

\* lines 186-208
GetTopReasons(txs, limit) ==
    LET sortedReasons == Slice(SortByCount(GroupBy(<<>>, txs, 1, "reason", TRUE)), limit)
    IN [j \in 1..Len(sortedReasons) |->
            [reason |-> sortedReasons[j].key,
             category |-> "Unknown",
             amount |-> sortedReasons[j].total,
             count |-> sortedReasons[j].count]]

\* A caller holds a transaction list and a limit, and calls one of the three
InitTop ==
    /\ NoBatch
    /\ NoTable
    /\ arg \in { [transactions |-> txs, limit |-> limit] :
                    txs \in SeqsUpTo(TopSamples, MaxTxs), limit \in {1, 2, DefaultLimit} }
    /\ ret = <<>>

CallGetTopRecipients ==
    /\ ret = <<>>
    /\ ret' = <<[by |-> "receiver", rows |-> GetTopRecipients(arg.transactions, arg.limit)]>>
    /\ UNCHANGED <<batchVars, arg, tableVars>>

CallGetTopSenders ==
    /\ ret = <<>>
    /\ ret' = <<[by |-> "payer", rows |-> GetTopSenders(arg.transactions, arg.limit)]>>
    /\ UNCHANGED <<batchVars, arg, tableVars>>

CallGetTopReasons ==
    /\ ret = <<>>
    /\ ret' = <<[by |-> "reason", rows |-> GetTopReasons(arg.transactions, arg.limit)]>>
    /\ UNCHANGED <<batchVars, arg, tableVars>>

NextTop ==
    \/ CallGetTopRecipients
    \/ CallGetTopSenders
    \/ CallGetTopReasons

SpecTop == InitTop /\ [][NextTop]_vars

\* ---------------------------------------------------------------- pie chart
\* The data memo of TransactionDistributionPieChart.jsx (lines 25-58).  `arg`
\* is the transaction list, `ret` the slices.  A share of 2% takes lists of
\* fifty transactions and more, so the list is given run by run: a block
\* [tx, n] stands for n consecutive transactions equal to tx (C 49 or 50
\* times; A, B and no recipient once).
PieTx(receiver) ==
    Tx(DateStr(2024, 1, 14), Num(10), receiver, Str("P"), Str("Rent"), Num(500))

Block(receiver, n) == [tx |-> PieTx(receiver), n |-> n]

PieBlocks ==
    { Block(Str("A"), 1), Block(Str("B"), 1), Block(Null, 1),
      Block(Str("C"), 49), Block(Str("C"), 50) }

\* transactions.length
RECURSIVE Length(_)
Length(blocks) == IF Len(blocks) = 0 THEN 0 ELSE blocks[1].n + Length(Tail(blocks))

\* line 30: tx.receiver || "Unknown Recipient"
Recipient(tx) == IF Truthy(tx.receiver) THEN tx.receiver.v ELSE "Unknown Recipient"

\* lines 28-32: recipientCounts, as entries in the order the keys were
\* created; the n iterations over a block add n to its recipient's count
RECURSIVE RecipientCounts(_, _, _)
RecipientCounts(entries, blocks, i) ==
    IF i > Len(blocks) THEN entries
    ELSE LET recipient == Recipient(blocks[i].tx)
             known == \E j \in 1..Len(entries) : entries[j].name = recipient
             entries1 == IF known THEN entries
                         ELSE Append(entries, [name |-> recipient, value |-> 0])
         IN RecipientCounts(
                [j \in 1..Len(entries1) |->
                    IF entries1[j].name = recipient
                    THEN [name |-> recipient, value |-> entries1[j].value + blocks[i].n]
                    ELSE entries1[j]],
                blocks, i + 1)

\* lines 35-37: .sort((a, b) => b.value - a.value), the stable sort by
\* descending value
RECURSIVE SortByValue(_)
SortByValue(entries) ==
    IF Len(entries) <= 1 THEN entries
    ELSE LET rest == SortByValue(SubSeq(entries, 1, Len(entries) - 1))
             e == entries[Len(entries)]
             k == Cardinality({ j \in 1..Len(rest) : rest[j].value >= e.value })
         IN SubSeq(rest, 1, k) \o <<e>> \o SubSeq(rest, k + 1, Len(rest))

\* line 39: sortedData.reduce((sum, {value}) => sum + value, 0)
RECURSIVE TotalCount(_)
TotalCount(entries) ==
    IF Len(entries) = 0 THEN 0 ELSE entries[1].value + TotalCount(Tail(entries))

\* A slice of exactly 2% counted as small too
AtMostThreshold(value, totalCount) == 50 * value <= totalCount

\* lines 40 and 46: value < totalCount * 0.02 (for the totals below 300 met
\* here the floating-point product compares like the exact one)
BelowThreshold(value, totalCount) == 50 * value < totalCount

\* lines 41-51: the loop that keeps the slices or adds them to othersCount
RECURSIVE Collapse(_, _, _, _, _)
Collapse(sortedData, i, totalCount, finalData, othersCount) ==
    IF i > Len(sortedData) THEN [finalData |-> finalData, othersCount |-> othersCount]
    ELSE IF BelowThreshold(sortedData[i].value, totalCount)
    THEN Collapse(sortedData, i + 1, totalCount, finalData,
                  othersCount + sortedData[i].value)
    ELSE Collapse(sortedData, i + 1, totalCount, Append(finalData, sortedData[i]),
                  othersCount)

\* lines 25-58
PieData(txs) ==
    LET sortedData == SortByValue(RecipientCounts(<<>>, txs, 1))
        collapsed == Collapse(sortedData, 1, TotalCount(sortedData), <<>>, 0)
    IN IF collapsed.othersCount > 0
       THEN Append(collapsed.finalData, [name |-> "Others", value |-> collapsed.othersCount])
       ELSE collapsed.finalData

\* The chart renders with a transaction list: the memo of line 25 is computed
InitPie ==
    /\ NoBatch
    /\ NoTable
    /\ arg \in SeqsUpTo(PieBlocks, MaxBlocks)
    /\ ret = <<>>

ComputePie ==
    /\ ret = <<>>
    /\ ret' = <<PieData(arg)>>
    /\ UNCHANGED <<batchVars, arg, tableVars>>

NextPie == ComputePie

SpecPie == InitPie /\ [][NextPie]_vars

\* ------------------------------------------------------------- extractField
\* extractField of extractFromPdf (utils.js lines 46-67; the older version
\* of lines 422-433 of part_009 takes the text as a parameter and is the
\* same otherwise).  Here a string is the sequence of its characters and
\* `arg` is [text, startString, endString], an omitted endString being the
\* empty sequence.
Chars == {"S", "E", " ", "x"}

\* text.indexOf(s, from) for a non-empty s, positions counted from 0
RECURSIVE IndexOf(_, _, _)
IndexOf(text, s, from) ==
    IF from + Len(s) > Len(text) THEN -1
    ELSE IF SubSeq(text, from + 1, from + Len(s)) = s THEN from
    ELSE IndexOf(text, s, from + 1)

\* text.substring(from, to) for from <= to
Substring(text, from, to) == SubSeq(text, from + 1, to)

\* s.trim()
RECURSIVE Trim(_)
Trim(s) ==
    IF Len(s) = 0 THEN s
    ELSE IF s[1] = " " THEN Trim(Tail(s))
    ELSE IF s[Len(s)] = " " THEN Trim(SubSeq(s, 1, Len(s) - 1))
    ELSE s

\* The end marker looked for from the start of the text
EndIndexAnywhere(text, endString, startIndex) ==
    IF Len(endString) > 0 THEN IndexOf(text, endString, 0) ELSE Len(text)

\* line 55: endString ? text.indexOf(endString, startIndex) : text.length
EndIndex(text, endString, startIndex) ==
    IF Len(endString) > 0 THEN IndexOf(text, endString, startIndex) ELSE Len(text)

\* lines 46-67
ExtractField(text, startString, endString) ==
    LET start == IndexOf(text, startString, 0)
        startIndex == start + Len(startString)
        endIndex == EndIndex(text, endString, startIndex)
    IN IF start = -1 THEN Null
       ELSE IF endIndex = -1 /\ Len(endString) > 0 THEN Null
       ELSE Str(Trim(Substring(text, startIndex, endIndex)))

\* extractFromPdf calls extractField on a text with a pair of markers
InitExtract ==
    /\ NoBatch
    /\ NoTable
    /\ arg \in { [text |-> text, startString |-> startString, endString |-> endString] :
                    text \in SeqsUpTo(Chars, MaxLen),
                    startString \in { <<"S">>, <<"S", "x">> },
                    endString \in { <<>>, <<"E">>, <<"S">> } }
    /\ ret = <<>>

CallExtractField ==
    /\ ret = <<>>
    /\ ret' = <<ExtractField(arg.text, arg.startString, arg.endString)>>
    /\ UNCHANGED <<batchVars, arg, tableVars>>

NextExtract == CallExtractField

SpecExtract == InitExtract /\ [][NextExtract]_vars

\* ------------------------------------------------- one message's Transaction
\* The record processFile pushes for a message whose fetch gave a document
\* (FileInput.jsx lines 78-83 and 101-109 with extractFromPdf), as a
\* function of the message text and the receipt.  `arg` is [text, doc]; the
\* amounts of the receipt and the balance capture of the message can be
\* missing, numeric, or text that is no number ("N/A", "," alone).
AmountTexts == { Null, Str(""), NumStr(1500), Str("N/A"), SepStr }

RecordInputs ==
    { [text |-> Text(balance, CbeLink),
       doc |-> Doc(amountStr, dateStr, Str("Abebe"), Str("Kebede"), Str("Rent"), totalAmountStr)] :
        balance \in {Null, NumStr(500), SepStr},
        amountStr \in AmountTexts,
        totalAmountStr \in AmountTexts,
        dateStr \in {Null, RawDate(3, 4, 2024, Str("10:15:00 AM"))} }

\* lines 78-83, 94 and 101-109
BuildTransaction(text, doc) ==
    Transaction(ExtractFromPdf(doc), MessageBalance(text), 1)

InitRecord ==
    /\ NoBatch
    /\ NoTable
    /\ arg \in RecordInputs
    /\ ret = <<>>

PushTransaction ==
    /\ ret = <<>>
    /\ ret' = <<BuildTransaction(arg.text, arg.doc)>>
    /\ UNCHANGED <<batchVars, arg, tableVars>>

NextRecord == PushTransaction

SpecRecord == InitRecord /\ [][NextRecord]_vars

\* -------------------------------------------------------- date normalization
\* The date and time of extractFromPdf, character by character, in its two
\* versions: utils.js lines 97-111 and part_009 lines 489-509.  `arg` is the
\* text found after "Payment Date & Time": a date a/b/year followed or not
\* by ", " and a clock time, a clock time alone, some other text, or null
\* (no anchor).
DateText(a, b, year, clock) ==
    [t |-> "datetext", a |-> a, b |-> b, year |-> year, clock |-> clock]

Components == { <<"3">>, <<"0", "3">>, <<"4">>, <<"1", "2">>, <<"1", "4">> }

\* A text with a clock time and no date, such as "at 10:15:00 AM"
ClockText(clock) == [t |-> "clocktext", clock |-> clock]

DateTexts ==
    { Null, Str("soon"), ClockText(Str("10:15:00 AM")) } \cup
    { DateText(a, b, <<"2", "0", "2", "4">>, clock) :
        a \in Components, b \in Components, clock \in {Null, Str("10:15:00 AM")} }

\* s.padStart(2, '0')
PadStart(s) == IF Len(s) < 2 THEN <<"0">> \o s ELSE s

\* parseInt(s, 10) of one or two digits, and String(n) of a number below 100
Digits == <<"0", "1", "2", "3", "4", "5", "6", "7", "8", "9">>
DigitValue(c) == (CHOOSE k \in 1..10 : Digits[k] = c) - 1
ParseInt(s) ==
    IF Len(s) = 1 THEN DigitValue(s[1]) ELSE 10 * DigitValue(s[1]) + DigitValue(s[2])
String(n) ==
    IF n < 10 THEN <<Digits[n + 1]>> ELSE <<Digits[(n \div 10) + 1], Digits[(n % 10) + 1]>>

\* `${year}-${month}-${day}`
Hyphenated(year, month, day) == year \o <<"-">> \o month \o <<"-">> \o day

\* utils.js lines 97-106: const [day, month, year] = dateMatch[1].split('/')
FormattedDate(dateStr) ==
    IF dateStr.t = "datetext"
    THEN LET day == dateStr.a
             month == dateStr.b
         IN Str(Hyphenated(dateStr.year, PadStart(month), PadStart(day)))
    ELSE Null

\* utils.js line 111: the time matched on its own
TimeOf(dateStr) ==
    IF dateStr.t = "null" THEN Null
    ELSE IF dateStr.t \in {"datetext", "clocktext"} /\ dateStr.clock # Null
    THEN dateStr.clock
    ELSE Undefined

\* part_009 lines 489-509: one expression matches date and time together,
\* const [_, monthStr, dayStr, year, timeStr] = dateMatch
FormattedDateOlder(dateStr) ==
    IF dateStr.t = "datetext" /\ dateStr.clock # Null
    THEN LET month == ParseInt(dateStr.a)
             day == ParseInt(dateStr.b)
         IN Str(Hyphenated(dateStr.year, PadStart(String(month)), PadStart(String(day))))
    ELSE Null

TimeOfOlder(dateStr) ==
    IF dateStr.t = "datetext" /\ dateStr.clock # Null THEN dateStr.clock ELSE Null

InitDate ==
    /\ NoBatch
    /\ NoTable
    /\ arg \in DateTexts
    /\ ret = <<>>

\* extractFromPdf of utils.js normalizes the date
NormalizeDate ==
    /\ ret = <<>>
    /\ ret' = <<[version |-> "utils.js", date |-> FormattedDate(arg), time |-> TimeOf(arg)]>>
    /\ UNCHANGED <<batchVars, arg, tableVars>>

\* extractFromPdf of part_009 normalizes the date
NormalizeDateOlder ==
    /\ ret = <<>>
    /\ ret' = <<[version |-> "part_009", date |-> FormattedDateOlder(arg),
                 time |-> TimeOfOlder(arg)]>>
    /\ UNCHANGED <<batchVars, arg, tableVars>>

NextDate ==
    \/ NormalizeDate
    \/ NormalizeDateOlder

SpecDate == InitDate /\ [][NextDate]_vars

\* ------------------------------------------------------------------ payer and receiver names
\* extractPayerReceiver of lib/utils.js (lines 69-89) and of the older version
\* (part_009 lines 445-459).  A text is a sequence of tokens: "P" is the word
\* of the label (Payer or Receiver), "A" is the word Account, "x" is a
\* character of a name, " " a space and "\n" a line break.  Neither word
\* overlaps itself, so indexOf over the tokens finds what indexOf over the
\* characters finds.
Label == <<"P", " ">>

LabelOlder == <<"P", " ", " ", " ">>

AccountString == <<" ", " ", "A">>

LineBreak == <<"\n">>

Pieces == { Label, LabelOlder, AccountString, LineBreak, <<"x">>, <<" ">> }

RECURSIVE Concat(_)
Concat(pieces) ==
    IF pieces = <<>> THEN <<>> ELSE Head(pieces) \o Concat(Tail(pieces))

ReceiptTexts == { Concat(pieces) : pieces \in SeqsUpTo(Pieces, MaxLen) }

\* s.trim(), which removes line breaks as well as spaces
RECURSIVE TrimWhite(_)
TrimWhite(s) ==
    IF Len(s) = 0 THEN s
    ELSE IF s[1] \in {" ", "\n"} THEN TrimWhite(Tail(s))
    ELSE IF s[Len(s)] \in {" ", "\n"} THEN TrimWhite(SubSeq(s, 1, Len(s) - 1))
    ELSE s

\* text.substring(a, b), which swaps its arguments when a > b
SubstringSwapped(text, a, b) ==
    IF a <= b THEN Substring(text, a, b) ELSE Substring(text, b, a)

\* utils.js line 78: text.indexOf(accountString, start + startString.length)
AccountIndex(text, from) == IndexOf(text, AccountString, from)

\* utils.js lines 69-89
ExtractPayerReceiver(text) ==
    LET startString == Label
        start == IndexOf(text, startString, 0)
        accountIndex == AccountIndex(text, start + Len(startString))
    IN IF start = -1 THEN Null
       ELSE IF accountIndex = -1 THEN Null
       ELSE Str(TrimWhite(SubstringSwapped(text, start + Len(startString), accountIndex)))

\* part_009 lines 445-459
ExtractPayerReceiverOlder(text) ==
    LET startString == LabelOlder
        start == IndexOf(text, startString, 0)
        account == IndexOf(text, AccountString, start)
        end == IF account = -1 THEN IndexOf(text, LineBreak, start) ELSE account
    IN IF start = -1 THEN Null
       ELSE IF end = -1 THEN Null
       ELSE Str(TrimWhite(SubstringSwapped(text, start + Len(startString), end)))

\* extractFromPdf calls extractPayerReceiver on the text of a receipt
InitParty ==
    /\ NoBatch
    /\ NoTable
    /\ arg \in { [text |-> text] : text \in ReceiptTexts }
    /\ ret = <<>>

CallExtractPayerReceiver ==
    /\ ret = <<>>
    /\ ret' = <<[version |-> "utils.js", label |-> Label,
                 name |-> ExtractPayerReceiver(arg.text)]>>
    /\ UNCHANGED <<batchVars, arg, tableVars>>

CallExtractPayerReceiverOlder ==
    /\ ret = <<>>
    /\ ret' = <<[version |-> "part_009", label |-> LabelOlder,
                 name |-> ExtractPayerReceiverOlder(arg.text)]>>
    /\ UNCHANGED <<batchVars, arg, tableVars>>

NextParty == CallExtractPayerReceiver \/ CallExtractPayerReceiverOlder

SpecParty == InitParty /\ [][NextParty]_vars

\* ------------------------------------------------------------------ sortData
\* sortData of lib/utils.js (lines 125-136).  Arrays are objects: a heap maps
\* each reference to the array it holds, the argument being the reference
\* "data", so that sorting an array in place shows in the heap.
Alphabet ==
    << "A", "B", "C", "D", "E", "F", "G", "H", "I", "J", "K", "L", "M",
       "N", "O", "P", "Q", "R", "S", "T", "U", "V", "W", "X", "Y", "Z" >>

\* a < b for two strings of one capital letter (the order of code units)
StringBefore(a, b) ==
    \E i, j \in 1..Len(Alphabet) : Alphabet[i] = a /\ Alphabet[j] = b /\ i < j

\* ToNumber of the relational comparison
ToNumber(x) ==
    CASE x.t = "num" -> x
      [] x.t = "null" -> Num(0)
      [] x.t = "str" -> IF x.v = "" THEN Num(0) ELSE NaN
      [] OTHER -> NaN

\* x < y: two strings compare as strings, anything else as numbers, and a
\* comparison with NaN is false
LessThan(x, y) ==
    IF x.t = "str" /\ y.t = "str" THEN StringBefore(x.v, y.v)
    ELSE /\ ToNumber(x).t = "num"
         /\ ToNumber(y).t = "num"
         /\ ToNumber(x).v < ToNumber(y).v

\* a[column]
Field(a, column) ==
    IF column \in DOMAIN a THEN a[column] ELSE Undefined

\* new Date(x), as the time value a comparison reads from it
NewDate(x) == IF IsInvalidDate(x) THEN NaN ELSE Num(DateTime(x))

\* lines 128-129: new Date(a[column]) for the date column
SortValue(a, column) ==
    IF column = "date" THEN NewDate(Field(a, column))
    ELSE Field(a, column)

\* The comparator without the direction
SortDataOrderAscending(a, b, column, direction) ==
    LET aValue == SortValue(a, column)
        bValue == SortValue(b, column)
    IN IF LessThan(aValue, bValue) THEN -1
       ELSE IF LessThan(bValue, aValue) THEN 1
       ELSE 0

\* lines 127-134: the comparator
SortDataOrder(a, b, column, direction) ==
    LET aValue == SortValue(a, column)
        bValue == SortValue(b, column)
    IN IF LessThan(aValue, bValue) THEN (IF direction = "asc" THEN -1 ELSE 1)
       ELSE IF LessThan(bValue, aValue) THEN (IF direction = "asc" THEN 1 ELSE -1)
       ELSE 0

\* Array.prototype.sort with the comparator of sortData, for the two engines
\* modelled above
RECURSIVE SortDataRunEnd(_, _, _, _, _)
SortDataRunEnd(s, idx, descending, column, direction) ==
    IF idx > Len(s) THEN idx - 1
    ELSE LET order == SortDataOrder(s[idx], s[idx - 1], column, direction)
         IN IF descending
            THEN IF order >= 0 THEN idx - 1
                 ELSE SortDataRunEnd(s, idx + 1, descending, column, direction)
            ELSE IF order < 0 THEN idx - 1
                 ELSE SortDataRunEnd(s, idx + 1, descending, column, direction)

RECURSIVE SortDataBinarySearch(_, _, _, _, _, _)
SortDataBinarySearch(s, pivot, left, right, column, direction) ==
    IF left >= right THEN left
    ELSE LET mid == left + ((right - left) \div 2)
         IN IF SortDataOrder(pivot, s[mid + 1], column, direction) < 0
            THEN SortDataBinarySearch(s, pivot, left, mid, column, direction)
            ELSE SortDataBinarySearch(s, pivot, mid + 1, right, column, direction)

RECURSIVE SortDataBinaryInsertionSort(_, _, _, _)
SortDataBinaryInsertionSort(s, start, column, direction) ==
    IF start > Len(s) THEN s
    ELSE SortDataBinaryInsertionSort(
            InsertAt(s, start,
                SortDataBinarySearch(s, s[start], 0, start - 1, column, direction)),
            start + 1, column, direction)

SortDataTimSort(s, column, direction) ==
    IF Len(s) < 2 THEN s
    ELSE LET descending == SortDataOrder(s[2], s[1], column, direction) < 0
             run == SortDataRunEnd(s, 3, descending, column, direction)
             made == IF descending
                     THEN Reverse(SubSeq(s, 1, run)) \o SubSeq(s, run + 1, Len(s))
                     ELSE s
         IN SortDataBinaryInsertionSort(made, run + 1, column, direction)

RECURSIVE SortDataLinearSearch(_, _, _, _, _)
SortDataLinearSearch(s, pivot, j, column, direction) ==
    IF j >= 1 /\ SortDataOrder(s[j], pivot, column, direction) > 0
    THEN SortDataLinearSearch(s, pivot, j - 1, column, direction)
    ELSE j

RECURSIVE SortDataInsertionSort(_, _, _, _)
SortDataInsertionSort(s, start, column, direction) ==
    IF start > Len(s) THEN s
    ELSE SortDataInsertionSort(
            InsertAt(s, start,
                SortDataLinearSearch(s, s[start], start - 1, column, direction)),
            start + 1, column, direction)

Engines == { "TimSort", "InsertionSort" }

ArraySort(engine, s, column, direction) ==
    IF engine = "TimSort" THEN SortDataTimSort(s, column, direction)
    ELSE SortDataInsertionSort(s, 2, column, direction)

\* An alias of the array in place of a copy
SpreadAlias(heap, ref) == [heap |-> heap, ref |-> ref]

\* line 127: [...data], a new array with the elements of data
Spread(heap, ref) ==
    [ heap |-> [r \in DOMAIN heap \cup {"copy"} |->
                    IF r = "copy" THEN heap[ref] ELSE heap[r]],
      ref |-> "copy" ]

\* lines 125-136, on a heap: the heap after the call and the reference returned
SortDataOn(engine, heap, column, direction) ==
    IF column = "" THEN [heap |-> heap, ref |-> "data"]
    ELSE LET spread == Spread(heap, "data")
         IN [ heap |-> [spread.heap EXCEPT ![spread.ref] =
                            ArraySort(engine, @, column, direction)],
              ref |-> spread.ref ]

\* The array sortData returns
SortData(engine, data, column, direction) ==
    LET after == SortDataOn(engine, [r \in {"data"} |-> data], column, direction)
    IN after.heap[after.ref]

SortSamples ==
    { Tx(DateStr(2024, 1, 5), Num(100), Str("A"), Str("P"), Str("R"), Num(500)),
      Tx(DateStr(2024, 2, 1), Num(50), Str("B"), Str("P"), Str("R"), Num(450)),
      Tx(DateStr(2024, 1, 5), Num(100), Str("A"), Str("Q"), Str("F"), Null),
      Tx(DateStr(2023, 12, 9), Num(0), Str("C"), Str("P"), Str("R"), Num(400)),
      Tx(Null, NaN, Null, Null, Null, Null),
      Tx(DateStr(2024, 13, 4), Num(-20), Str("D"), Str("Q"), Str("F"), Num(420)) }

SortColumns == { "", "date", "amount", "receiver" }

\* The tables call sortData with their rows, sort column and sort direction
InitSort ==
    /\ NoBatch
    /\ NoTable
    /\ arg \in { [data |-> data, sortColumn |-> column, sortDirection |-> direction] :
                    data \in SeqsUpTo(SortSamples, MaxTxs),
                    column \in SortColumns,
                    direction \in { "asc", "desc" } }
    /\ ret = <<>>

CallSortData ==
    /\ ret = <<>>
    /\ \E engine \in Engines :
          LET after == SortDataOn(engine, [r \in {"data"} |-> arg.data],
                                  arg.sortColumn, arg.sortDirection)
          IN ret' = <<[engine |-> engine, heap |-> after.heap, ref |-> after.ref]>>
    /\ UNCHANGED <<batchVars, arg, tableVars>>

NextSort == CallSortData

SpecSort == InitSort /\ [][NextSort]_vars

\* ------------------------------------------------------------ SummaryCards
\* The Current Balance card of SummaryCards.jsx (lines 20-21 and 80), shown
\* by App.jsx with the transaction list
TypeError == [t |-> "TypeError"]

\* x.toFixed(2): a text for a number (NaN included), a TypeError for a value
\* without the method
ToFixed(x) ==
    IF x.t \in {"num", "NaN"} THEN [t |-> "text", of |-> x] ELSE TypeError

CurrentBalanceCard(txs) ==
    LET currentBalance == IF Len(txs) > 0 THEN txs[1].currentBalance ELSE Num(0)
    IN IF currentBalance # Null THEN ToFixed(currentBalance) ELSE Str("N/A")

\* ------------------------------------------------------------------ progress of a run
\* The event loop resumes a run whose awaited promise has settled and runs
\* each continuation to its next await: a step of a run that stays possible
\* is taken.  The user need not submit a file.
Fairness ==
    \A r \in Runs :
        /\ WF_vars(TextRead(r))
        /\ WF_vars(ProcessMessage(r))
        /\ WF_vars(\E result \in FetchResults : FetchReturn(r, result))
        /\ WF_vars(Finish(r))

\* The runs of a session whose files have a total size of at most
\* MaxLiveInput
NextLive ==
    \/ \E r \in Runs : \E file \in Files(MaxLiveInput - TotalSize(Submitted)) : Submit(r, file)
    \/ \E r \in Runs : TextRead(r)
    \/ \E r \in Runs : ProcessMessage(r)
    \/ \E r \in Runs : \E result \in FetchResults : FetchReturn(r, result)
    \/ \E r \in Runs : Finish(r)

SpecLive == Init /\ [][NextLive]_vars /\ Fairness

\* ------------------------------------------------------------------ tables
\* TransactionTable.jsx and the three Top tables (TopRecipientsTable.jsx,
\* TopSendersTable.jsx, TopReasonsTable.jsx) as one state machine: a table is
\* rendered with a transaction list, and the user clicks headers, edits the
\* date filters, pages, and the list is replaced.
MaxRows == 11

MaxPage == 3

TableLimit == 25

TopTables == { "TopRecipientsTable", "TopSendersTable", "TopReasonsTable" }

Tables == { "TransactionTable" } \cup TopTables

\* The columns whose headers call handleSort
Columns(c) ==
    CASE c = "TransactionTable" -> { "date", "amount", "reason", "receiver" }
      [] c = "TopRecipientsTable" -> { "recipient", "amount", "count" }
      [] c = "TopSendersTable" -> { "sender", "amount", "count" }
      [] c = "TopReasonsTable" -> { "reason", "amount", "count" }

\* useState(...) of sortColumn and sortDirection
InitialSortColumn(c) == IF c = "TransactionTable" THEN "" ELSE "amount"

InitialSortDirection(c) == IF c = "TransactionTable" THEN "asc" ELSE "desc"

\* Transaction lists of the TransactionTable: dated before, on and after the
\* bounds the filters take, undated, and with a date that does not parse
TableSamples ==
    << Tx(DateStr(2024, 1, 10), Num(100), Str("A"), Str("P"), Str("R"), Num(500)),
       Tx(DateStr(2024, 1, 20), Num(50), Str("B"), Str("P"), Str("R"), Num(450)),
       Tx(DateStr(2024, 2, 5), Num(70), Str("C"), Str("Q"), Str("F"), Num(380)),
       Tx(Null, Num(30), Str("A"), Str("P"), Str("R"), Null),
       Tx(DateStr(2024, 13, 4), Num(20), Str("D"), Str("Q"), Str("F"), Num(360)) >>

TableList(n) ==
    [i \in 1..n |-> TableSamples[((i - 1) % Len(TableSamples)) + 1]]

\* The value of a date input: empty, or a date
FilterValues == { Str(""), DateStr(2024, 1, 20), DateStr(2024, 2, 1) }

\* Transaction lists of the Top tables: n transactions of n receivers, payers
\* and reasons, of growing amounts
TopList(n) ==
    [i \in 1..n |-> Tx(DateStr(2024, 1, 5), Num(i), Str(Alphabet[i]), Str(Alphabet[i]),
                       Str(Alphabet[i]), Null)]

TableInputs(c) ==
    IF c = "TransactionTable" THEN { TableList(n) : n \in 0..MaxRows }
    ELSE { TopList(n) : n \in { 0, 2, TableLimit, Len(Alphabet) } }

\* TransactionTable.jsx lines 43-50
FilteredTransactions ==
    LET Kept(tx) ==
            /\ ~(Truthy(filterStart) /\ LessThan(NewDate(tx.date), NewDate(filterStart)))
            /\ ~(Truthy(filterEnd) /\ LessThan(NewDate(filterEnd), NewDate(tx.date)))
    IN SelectSeq(tableTransactions, Kept)

\* lines 59-61
SortedTransactions(engine) ==
    SortData(engine, FilteredTransactions, sortColumn, sortDirection)

\* lines 63-67: sortedTransactions.slice(startIndex, endIndex)
PagedTransactions(engine) ==
    LET startIndex == (currentPage - 1) * itemsPerPage
        endIndex == startIndex + itemsPerPage
        sorted == SortedTransactions(engine)
    IN SubSeq(sorted, startIndex + 1, IF endIndex < Len(sorted) THEN endIndex ELSE Len(sorted))

\* line 69: Math.ceil(sortedTransactions.length / itemsPerPage)
TotalPages == (Len(FilteredTransactions) + itemsPerPage - 1) \div itemsPerPage

\* The grouping attribute of a Top table and the name of its column
GroupField(c) ==
    CASE c = "TopRecipientsTable" -> "receiver"
      [] c = "TopSendersTable" -> "payer"
      [] c = "TopReasonsTable" -> "reason"

GroupColumn(c) ==
    CASE c = "TopRecipientsTable" -> "recipient"
      [] c = "TopSendersTable" -> "sender"
      [] c = "TopReasonsTable" -> "reason"

\* The total of a group: (totals[key] || 0) + Math.abs(tx.amount) over its
\* transactions, members being their places in the list
RECURSIVE GroupTotal(_, _, _)
GroupTotal(txs, members, total) ==
    IF members = {} THEN total
    ELSE LET i == CHOOSE m \in members : \A n \in members : m <= n
         IN GroupTotal(txs, members \ {i}, Plus(OrZero(total), Abs(txs[i].amount)))

\* TopRecipientsTable.jsx lines 35-60 (TopSendersTable.jsx 18-40,
\* TopReasonsTable.jsx 32-56): one row per group, in the order the groups
\* first appear
TopRows ==
    LET txs == tableTransactions
        field == GroupField(component)
        first == { i \in 1..Len(txs) :
                     /\ Truthy(txs[i][field])
                     /\ \A j \in 1..(i - 1) : txs[j][field] # txs[i][field] }
        Nth(k) == CHOOSE i \in first : Cardinality({ j \in first : j < i }) = k - 1
        Members(key) == { i \in 1..Len(txs) : txs[i][field] = key }
    IN [k \in 1..Cardinality(first) |->
            [c \in { GroupColumn(component), "amount", "count" } |->
                CASE c = "amount" ->
                        GroupTotal(txs, Members(txs[Nth(k)][field]), Undefined)
                  [] c = "count" -> Num(Cardinality(Members(txs[Nth(k)][field])))
                  [] OTHER -> txs[Nth(k)][field]]]

\* TopRecipientsTable.jsx line 69 slices the sorted rows; TopSendersTable.jsx
\* line 44 and TopReasonsTable.jsx line 64 do not
SliceTop(c, rows) ==
    IF c = "TopRecipientsTable" THEN Slice(rows, TableLimit) ELSE rows

\* The rows a Top table shows
DisplayedRows(engine) ==
    SliceTop(component, SortData(engine, TopRows, sortColumn, sortDirection))

\* The direction never turned
NextDirectionAscending(direction) == "asc"

\* TransactionTable.jsx line 30: sortDirection === "asc" ? "desc" : "asc"
NextDirection(direction) == IF direction = "asc" THEN "desc" ELSE "asc"

\* A table is rendered with a transaction list
InitTable ==
    /\ NoBatch
    /\ arg = <<>>
    /\ ret = <<>>
    /\ component \in Tables
    /\ tableTransactions \in TableInputs(component)
    /\ sortColumn = InitialSortColumn(component)
    /\ sortDirection = InitialSortDirection(component)
    /\ filterStart = Str("")
    /\ filterEnd = Str("")
    /\ currentPage = 1
    /\ itemsPerPage = 10
    /\ lastClick = NoClick

\* handleSort(column): TransactionTable.jsx lines 28-35, TopRecipientsTable.jsx
\* lines 22-29, TopSendersTable.jsx lines 9-16, TopReasonsTable.jsx lines 20-27
HandleSort(column) ==
    /\ column \in Columns(component)
    /\ IF sortColumn = column
       THEN /\ sortDirection' = NextDirection(sortDirection)
            /\ UNCHANGED sortColumn
       ELSE /\ sortColumn' = column
            /\ sortDirection' = "asc"
    /\ lastClick' = [column |-> column, before |-> sortDirection,
                     repeat |-> lastClick.column = column]
    /\ UNCHANGED <<component, tableTransactions, filterStart, filterEnd, currentPage,
                   itemsPerPage>>
    /\ UNCHANGED <<batchVars, arg, ret>>

\* lines 91 and 106: the date inputs
SetFilterStart(value) ==
    /\ component = "TransactionTable"
    /\ value # filterStart
    /\ filterStart' = value
    /\ lastClick' = NoClick
    /\ UNCHANGED <<component, tableTransactions, sortColumn, sortDirection, filterEnd,
                   currentPage, itemsPerPage>>
    /\ UNCHANGED <<batchVars, arg, ret>>

SetFilterEnd(value) ==
    /\ component = "TransactionTable"
    /\ value # filterEnd
    /\ filterEnd' = value
    /\ lastClick' = NoClick
    /\ UNCHANGED <<component, tableTransactions, sortColumn, sortDirection, filterStart,
                   currentPage, itemsPerPage>>
    /\ UNCHANGED <<batchVars, arg, ret>>

\* lines 208-218 and 71-74: the select, shown with more than one page, and
\* the effect that follows a change of itemsPerPage
SetItemsPerPage(value) ==
    /\ component = "TransactionTable"
    /\ TotalPages > 1
    /\ value # itemsPerPage
    /\ itemsPerPage' = value
    /\ currentPage' = 1
    /\ lastClick' = NoClick
    /\ UNCHANGED <<component, tableTransactions, sortColumn, sortDirection, filterStart,
                   filterEnd>>
    /\ UNCHANGED <<batchVars, arg, ret>>

\* lines 220-226: Previous
PreviousPage ==
    /\ component = "TransactionTable"
    /\ TotalPages > 1
    /\ currentPage # 1
    /\ currentPage' = currentPage - 1
    /\ lastClick' = NoClick
    /\ UNCHANGED <<component, tableTransactions, sortColumn, sortDirection, filterStart,
                   filterEnd, itemsPerPage>>
    /\ UNCHANGED <<batchVars, arg, ret>>

\* lines 230-236: Next
NextPage ==
    /\ component = "TransactionTable"
    /\ TotalPages > 1
    /\ currentPage # TotalPages
    /\ currentPage < MaxPage
    /\ currentPage' = currentPage + 1
    /\ lastClick' = NoClick
    /\ UNCHANGED <<component, tableTransactions, sortColumn, sortDirection, filterStart,
                   filterEnd, itemsPerPage>>
    /\ UNCHANGED <<batchVars, arg, ret>>

\* App.jsx renders the table again with another transaction list
ReplaceTransactions(txs) ==
    /\ txs # tableTransactions
    /\ tableTransactions' = txs
    /\ lastClick' = NoClick
    /\ UNCHANGED <<component, sortColumn, sortDirection, filterStart, filterEnd,
                   currentPage, itemsPerPage>>
    /\ UNCHANGED <<batchVars, arg, ret>>

NextTable ==
    \/ \E column \in UNION { Columns(c) : c \in Tables } : HandleSort(column)
    \/ \E value \in FilterValues : SetFilterStart(value)
    \/ \E value \in FilterValues : SetFilterEnd(value)
    \/ \E value \in { 5, 10, 25, 50, 100 } : SetItemsPerPage(value)
    \/ PreviousPage
    \/ NextPage
    \/ \E txs \in TableInputs(component) : ReplaceTransactions(txs)

SpecTable == InitTable /\ [][NextTable]_vars

\* ------------------------------------------------------------------ claims
Done(r) == pc[r] = "done"
Last(s) == s[Len(s)]

\* The file of run r is an array of messages: every entry has no text or a
\* string as its text
WellFormed(r) ==
    /\ IsArray(input[r].content)
    /\ \A i \in 1..Len(Items(r)) :
        ~Truthy(Items(r)[i].text) \/ IsString(Items(r)[i].text)

\* C1: every Transaction of a run carries the balance its message states
\* when the message states one, whatever the document's field set holds, and
\* the field set's own currentBalance (which extractFromPdf leaves undefined)
\* only when the message states none.
C1_MessageBalanceWins ==
    \A r \in Runs : \A k \in 1..Len(transactions[r]) :
        LET tx == transactions[r][k]
            text == Items(r)[tx.msg].text
        IN IF text.balance # Null
           THEN tx.currentBalance = ParseFloat(text.balance)
           ELSE tx.currentBalance = Undefined

C1_Witness ==
    \E r \in Runs :
        /\ Done(r)
        /\ \E k \in 1..Len(transactions[r]) : transactions[r][k].currentBalance = Num(500)
        /\ \E k \in 1..Len(transactions[r]) : transactions[r][k].currentBalance = Undefined

AllFieldsNull(tx) ==
    /\ tx.amount = Null
    /\ tx.date = Null
    /\ tx.time = Null
    /\ tx.receiver = Null
    /\ tx.payer = Null
    /\ tx.reason = Null
    /\ tx.totalAmount = Null

\* C2: no Transaction of a run, and none given to setTransactions, has all
\* seven document fields null.
C2_NoEmptyTransaction ==
    /\ \A r \in Runs : \A k \in 1..Len(transactions[r]) : ~AllFieldsNull(transactions[r][k])
    /\ \A k \in 1..Len(appTransactions) : ~AllFieldsNull(appTransactions[k])

InFlightOf(r) == { f \in inflight : f.run = r }

\* C3: within one run at most one fetchContent call is in flight, a fetch is
\* started only when every earlier fetch of the run has returned, and the
\* fetches are issued in the order of the messages.
C3_FetchesSequential ==
    \A r \in Runs :
        /\ Cardinality(InFlightOf(r)) <= 1
        /\ Len(fetched[r]) = Len(responses[r]) + Cardinality(InFlightOf(r))
        /\ \A f \in InFlightOf(r) : f.msg = Last(fetched[r])
        /\ \A k \in 1..(Len(fetched[r]) - 1) : fetched[r][k] < fetched[r][k + 1]

C3_Witness ==
    \E r \in Runs :
        /\ Len(fetched[r]) = 2
        /\ Len(responses[r]) = 1
        /\ pc[r] = "fetching"

Latest == CHOOSE r \in Submitted : \A q \in Submitted : q <= r
Finished(r) == pc[r] \in {"idle", "rejected", "done"}

\* C4: when a file was submitted while another run awaited a fetch, then once
\* every run has finished the transaction list, the error text, loading and
\* progress are those of the file submitted last, and the fetches of two runs
\* never interleave.
C4_SecondBatchReplacesFirst ==
    /\ (overlap /\ (\A r \in Runs : Finished(r)) /\ Done(Latest)) =>
            /\ appTransactions = Last(txCalls[Latest])
            /\ error = Last(errorCalls[Latest])
            /\ loading = FALSE
            /\ progress = 0
    /\ overlap =>
            \A r \in Runs : \A q \in Runs \ {r} :
                ~(pc[r] = "fetching" /\ fetched[q] # <<>> /\ ~Finished(q))

\* C5: a run over an array of messages processes every message, whatever its
\* fetches return, and its final list holds the Transaction of every message
\* whose fetch succeeded; a file that is no array is not processed at all.
C5_FailureDoesNotAbort ==
    \A r \in Runs :
        /\ (Done(r) /\ WellFormed(r)) =>
            /\ index[r] = Len(Items(r)) + 1
            /\ Len(txCalls[r]) = 2
            /\ \A k \in 1..Len(fetched[r]) :
                responses[r][k] = "pdf" =>
                    \E j \in 1..Len(Last(txCalls[r])) :
                        Last(txCalls[r])[j].msg = fetched[r][k]
        /\ (Done(r) /\ ~IsArray(input[r].content)) =>
            /\ index[r] = 1
            /\ fetched[r] = <<>>

C5_Witness ==
    \E r \in Runs :
        /\ Done(r)
        /\ WellFormed(r)
        /\ responses[r] = <<"error", "pdf">>
        /\ Len(Last(txCalls[r])) = 1

Count(s, x) == Cardinality({ i \in 1..Len(s) : s[i] = x })
SurfacedFetchErrors(r) == IF Last(errorCalls[r]) = ErrFetch THEN 1 ELSE 0

\* C6: after a run over an array of messages the error state surfaces one
\* description per failed fetch: as many as fetches failed.
C6_ErrorsAccumulated ==
    \A r \in Runs :
        (Done(r) /\ WellFormed(r)) =>
            SurfacedFetchErrors(r) = Count(responses[r], "error")

NotAnArray(r) == EndsWithJson(input[r].name) /\ input[r].content = JsonObject

\* C7: a run whose file parses to something that is no array sets the
\* malformed-input error once, calls fetchContent never, builds no
\* Transaction and hands setTransactions nothing but the empty list; when it
\* is the only run, the exposed list is empty and the error is the
\* malformed-input one.
C7_NonArrayRejectedOnce ==
    \A r \in Runs :
        (Done(r) /\ NotAnArray(r)) =>
            /\ errorCalls[r] = <<"", ErrInvalidFormat>>
            /\ fetched[r] = <<>>
            /\ transactions[r] = <<>>
            /\ txCalls[r] = << <<>> >>
            /\ (\A q \in Runs \ {r} : pc[q] = "idle") =>
                    /\ appTransactions = <<>>
                    /\ error = ErrInvalidFormat

C7_Witness ==
    \E r \in Runs :
        /\ Done(r)
        /\ NotAnArray(r)
        /\ \A q \in Runs \ {r} : pc[q] = "idle"

\* C8: a run over an array of messages never ends with the fatal
\* error-processing-file text, and it ends with the no-transactions text
\* exactly when the list it hands to setTransactions is empty.
C8_ZeroResultDistinct ==
    \A r \in Runs :
        (Done(r) /\ WellFormed(r)) =>
            /\ Last(errorCalls[r]) # ErrProcessing
            /\ (Last(errorCalls[r]) = ErrNoTransactions) <=> (Last(txCalls[r]) = <<>>)

C8_Witness ==
    \E r \in Runs :
        /\ Done(r)
        /\ WellFormed(r)
        /\ responses[r] = <<"error">>
        /\ Last(txCalls[r]) = <<>>
        /\ Last(errorCalls[r]) = ErrNoTransactions

Parsable(date) == date # Null /\ ~IsInvalidDate(date)

\* C9: the list a run hands to setTransactions is ordered newest first:
\* no record is followed by one with a newer date, no record with a null or
\* unparsable date comes before one with a parsable date, and records with
\* equal dates are in the order of their messages.
C9_SortedNewestFirst ==
    \A r \in Runs :
        (Done(r) /\ Len(txCalls[r]) = 2) =>
            LET out == Last(txCalls[r])
            IN \A i \in 1..Len(out) : \A j \in 1..Len(out) :
                i < j =>
                    /\ ~(~Parsable(out[i].date) /\ Parsable(out[j].date))
                    /\ (Parsable(out[i].date) /\ Parsable(out[j].date)) =>
                            DateTime(out[i].date) >= DateTime(out[j].date)
                    /\ out[i].date = out[j].date => out[i].msg < out[j].msg

SucceededMsgs(r) == { fetched[r][k] : k \in { i \in 1..Len(responses[r]) : responses[r][i] = "pdf" } }

\* C10: fetchContent is called only for messages whose text holds a link
\* with cbe.com.et in it; the final list of a run over an array of messages
\* holds exactly one Transaction for every message whose fetch gave a
\* document and nothing else; setError is given a fetch error once per failed
\* fetch, so never for a message without a link.
C10_OneTransactionPerDocument ==
    \A r \in Runs :
        /\ \A k \in 1..Len(fetched[r]) :
            LET text == Items(r)[fetched[r][k]].text
            IN /\ IsString(text)
               /\ text.link # Null
               /\ IncludesCbe(text.link)
        /\ (Done(r) /\ WellFormed(r)) =>
            LET out == Last(txCalls[r])
            IN /\ { out[j].msg : j \in 1..Len(out) } = SucceededMsgs(r)
               /\ Len(out) = Cardinality(SucceededMsgs(r))
               /\ Count(errorCalls[r], ErrFetch) = Count(responses[r], "error")

C10_Witness ==
    \E r \in Runs :
        /\ Done(r)
        /\ WellFormed(r)
        /\ Len(Items(r)) = 3
        /\ \E i \in 1..3 : IsString(Items(r)[i].text) /\ Items(r)[i].text.link = Null
        /\ responses[r] = <<"error", "pdf">>
        /\ Len(Last(txCalls[r])) = 1

\* The host of the link is the bank's domain or one of its subdomains
HostIsCbe(link) == link.host \in {"cbe.com.et", "apps.cbe.com.et"}

\* C11: fetchContent is called only for a link whose host is cbe.com.et; a
\* link to another host that holds "cbe.com.et" in its path or query is
\* never fetched
C11_FetchOnlyCbeHost ==
    \A r \in Runs : \A k \in 1..Len(fetched[r]) :
        HostIsCbe(ExtractFromSms(Items(r)[fetched[r][k]].text))

\* The setProgress calls of run r before the one of its finally block
Reported(r) ==
    IF pc[r] = "done"
    THEN SubSeq(progressCalls[r], 1, Len(progressCalls[r]) - 1)
    ELSE progressCalls[r]

\* C12: within one batch the reported progress never decreases up to the
\* last message: it is set once after every message, whether or not the
\* message has text or a link, and is 100 after the last message of a
\* non-empty batch
C12_ProgressMonotone ==
    \A r \in Runs :
        LET n == Len(Items(r))
            calls == Reported(r)
        IN /\ \A i, j \in 1..Len(calls) : i <= j => calls[i] <= calls[j]
           /\ pc[r] \in {"loop", "fetching"} \/ (pc[r] = "done" /\ IsArray(input[r].content))
                => Len(calls) = 2 + (index[r] - 1)
           /\ pc[r] \in {"loop", "done"} /\ n > 0 /\ index[r] > n
                => calls[2 + n] = 100
           /\ Submitted = {r} /\ pc[r] \notin {"rejected", "done"}
                => progress = Last(calls)

\* A batch of three messages, the first without text and the second with a
\* link to another host, has reported 5, 10, 40, 70 and 100
C12_Witness ==
    \E r \in Runs :
        /\ pc[r] = "done"
        /\ Len(Items(r)) = 3
        /\ Items(r)[1] = NoTextMsg
        /\ Items(r)[2] = [text |-> Text(Null, OtherLink)]
        /\ Reported(r) = <<5, 10, 40, 70, 100>>

\* The positions of the transactions of a list dated in month (y, m), and the
\* sum of those of their amounts that are greater than zero
DatedIn(txs, y, m) ==
    { k \in 1..Len(txs) : Parsable(txs[k].date) /\ txs[k].date.y = y /\ txs[k].date.m = m }
RECURSIVE SumPositive(_, _)
SumPositive(txs, S) ==
    IF S = {} THEN 0
    ELSE LET k == CHOOSE x \in S : TRUE
             a == txs[k].amount
         IN (IF a.t = "num" /\ a.v > 0 THEN a.v ELSE 0) + SumPositive(txs, S \ {k})
Greatest(S) == CHOOSE x \in S : \A y \in S : y <= x

\* C13: the chart rows come in ascending order of month, each month once;
\* the row of a month has as Expenses the sum of the amounts greater than
\* zero of the transactions dated in it and as Balance the currentBalance of
\* the last of them in the list
C13_MonthlyRollup ==
    ret # <<>> =>
        LET rows == ret[1]
        IN /\ \A i, j \in 1..Len(rows) :
                i < j => MonthBefore(rows[i].month, rows[j].month)
           /\ \A k \in 1..Len(arg) :
                Parsable(arg[k].date) =>
                    LET S == DatedIn(arg, arg[k].date.y, arg[k].date.m)
                    IN \E i \in 1..Len(rows) :
                        /\ rows[i].month = [y |-> arg[k].date.y, m |-> arg[k].date.m]
                        /\ rows[i].Expenses = SumPositive(arg, S)
                        /\ rows[i].Balance = arg[Greatest(S)].currentBalance

\* Amounts 100 and -30 of one month with balances 500 then 480, after an
\* older transaction: two rows, the second with Expenses 100 and Balance 480
C13_Witness ==
    /\ Len(arg) = 3
    /\ arg[1].date = DateStr(2024, 2, 3)
    /\ arg[2].date = DateStr(2024, 1, 14) /\ arg[2].amount = Num(100)
    /\ arg[3].date = DateStr(2024, 1, 20) /\ arg[3].amount = Num(-30)
    /\ ret = << << [month |-> [y |-> 2024, m |-> 1], Expenses |-> 100, Balance |-> Num(480)],
                   [month |-> [y |-> 2024, m |-> 2], Expenses |-> 20, Balance |-> Num(460)] >> >>

\* C14: the chart has no row for a transaction whose date is null or
\* unparsable: every row's month is the month of a transaction with a
\* parsable date
C14_NoSpuriousMonth ==
    ret # <<>> =>
        \A i \in 1..Len(ret[1]) :
            \E k \in 1..Len(arg) :
                /\ Parsable(arg[k].date)
                /\ ret[1][i].month = [y |-> arg[k].date.y, m |-> arg[k].date.m]

\* The key of a row of one of the three tables
RowKey(row) ==
    IF "recipient" \in DOMAIN row THEN row.recipient
    ELSE IF "sender" \in DOMAIN row THEN row.sender
    ELSE row.reason
\* The positions of the transactions of a list whose attribute `by` is key
Keyed(txs, by, key) == { k \in 1..Len(txs) : txs[k][by] = key }
\* The keys of a list: the values of the attribute that are not null
Keys(txs, by) == { txs[k][by] : k \in 1..Len(txs) } \ {Null}
RECURSIVE SumAbsolute(_, _)
SumAbsolute(txs, S) ==
    IF S = {} THEN 0
    ELSE LET k == CHOOSE x \in S : TRUE
             a == txs[k].amount
         IN (IF a.t # "num" THEN 0 ELSE IF a.v < 0 THEN -a.v ELSE a.v)
            + SumAbsolute(txs, S \ {k})

\* C15: every row of getTopRecipients, getTopSenders and getTopReasons has
\* as amount the sum of the absolute amounts of the transactions with its
\* key and as count their number; no row has a null key
C15_RowTotals ==
    ret # <<>> =>
        \A j \in 1..Len(ret[1].rows) :
            LET row == ret[1].rows[j]
                S == Keyed(arg.transactions, ret[1].by, RowKey(row))
            IN /\ RowKey(row) # Null
               /\ row.count = Cardinality(S)
               /\ row.amount = Num(SumAbsolute(arg.transactions, S))

\* The alphabetical order of the keys of TopSamples
KeyBefore(a, b) ==
    LET rank == [s \in {"A", "B", "C", "Fee", "P", "Q", "Rent"} |->
                    CASE s = "A" -> 1 [] s = "B" -> 2 [] s = "C" -> 3 [] s = "Fee" -> 4
                      [] s = "P" -> 5 [] s = "Q" -> 6 [] OTHER -> 7]
    IN rank[a.v] < rank[b.v]
\* Row a ranks before row b: greater amount, then greater count, then
\* smaller key
RanksBefore(a, b) ==
    \/ a.amount.v > b.amount.v
    \/ a.amount.v = b.amount.v /\ a.count > b.count
    \/ a.amount.v = b.amount.v /\ a.count = b.count /\ KeyBefore(RowKey(a), RowKey(b))

\* C16: the rows come in descending order of amount, equal amounts in
\* descending order of count, then in ascending order of key, and there are
\* min(limit, number of groups) of them
C16_RankedByAmount ==
    ret # <<>> =>
        LET rows == ret[1].rows
            groups == Cardinality(Keys(arg.transactions, ret[1].by))
        IN /\ Len(rows) = (IF arg.limit < groups THEN arg.limit ELSE groups)
           /\ \A i, j \in 1..Len(rows) : i < j => RanksBefore(rows[i], rows[j])

\* The recipient names of a list given in blocks ("Unknown Recipient"
\* standing for none), the number of transactions to a name, and the names
\* with a share below 2%
NameOf(tx) == IF tx.receiver = Null THEN "Unknown Recipient" ELSE tx.receiver.v
Names(blocks) == { NameOf(blocks[k].tx) : k \in 1..Len(blocks) }
RECURSIVE Share(_, _)
Share(blocks, name) ==
    IF Len(blocks) = 0 THEN 0
    ELSE (IF NameOf(blocks[1].tx) = name THEN blocks[1].n ELSE 0) + Share(Tail(blocks), name)
Small(blocks) == { name \in Names(blocks) : 100 * Share(blocks, name) < 2 * Length(blocks) }
RECURSIVE SumValues(_)
SumValues(rows) == IF Len(rows) = 0 THEN 0 ELSE rows[1].value + SumValues(Tail(rows))
RECURSIVE SumShares(_, _)
SumShares(blocks, S) ==
    IF S = {} THEN 0
    ELSE LET name == CHOOSE x \in S : TRUE
         IN Share(blocks, name) + SumShares(blocks, S \ {name})

\* C17: the pie's slices are the recipients with a share of 2% and more, one
\* slice each with the number of their transactions, in descending order of
\* that number, followed by a single "Others" slice with the number of the
\* remaining transactions when there are any; the values add up to the
\* number of transactions
C17_PieSlices ==
    ret # <<>> =>
        LET rows == ret[1]
            others == SumShares(arg, Small(arg))
            kept == IF others > 0 THEN SubSeq(rows, 1, Len(rows) - 1) ELSE rows
        IN /\ SumValues(rows) = Length(arg)
           /\ others > 0 => Last(rows) = [name |-> "Others", value |-> others]
           /\ { kept[i].name : i \in 1..Len(kept) } = Names(arg) \ Small(arg)
           /\ Len(kept) = Cardinality(Names(arg) \ Small(arg))
           /\ \A i \in 1..Len(kept) :
                /\ kept[i].value = Share(arg, kept[i].name)
                /\ 100 * kept[i].value >= 2 * Length(arg)
           /\ \A i, j \in 1..Len(kept) : i < j => kept[i].value >= kept[j].value

\* Fifty transactions to C, one to A and one to nobody: C keeps its slice,
\* the other two make an "Others" slice of 2
C17_Witness ==
    /\ Length(arg) = 52
    /\ ret = << << [name |-> "C", value |-> 50], [name |-> "Others", value |-> 2] >> >>

\* s occurs in text at position i (counted from 0); the least of a set of
\* positions; t is s without its leading and trailing blanks
Occurs(text, s, i) == i + Len(s) <= Len(text) /\ SubSeq(text, i + 1, i + Len(s)) = s
Least(S) == CHOOSE x \in S : \A y \in S : x <= y
Blanks(n) == [k \in 1..n |-> " "]
TrimmedOf(t, s) ==
    /\ \E a, b \in 0..Len(s) : s = Blanks(a) \o t \o Blanks(b)
    /\ Len(t) > 0 => t[1] # " " /\ t[Len(t)] # " "

\* C18: extractField gives null when the start marker is not in the text,
\* and null when an end marker is given and does not occur at or after the
\* end of the first start marker; otherwise it gives the text between the
\* end of the first start marker and the first end marker at or after it
\* (the end of the text without end marker), trimmed
C18_ExtractField ==
    ret # <<>> =>
        LET text == arg.text
            starts == { i \in 0..Len(text) : Occurs(text, arg.startString, i) }
            from == Least(starts) + Len(arg.startString)
            ends == { j \in from..Len(text) : Occurs(text, arg.endString, j) }
        IN IF starts = {} THEN ret[1] = Null
           ELSE IF Len(arg.endString) > 0 /\ ends = {} THEN ret[1] = Null
           ELSE /\ ret[1] # Null
                /\ TrimmedOf(ret[1].v,
                             SubSeq(text, from + 1,
                                    IF Len(arg.endString) > 0 THEN Least(ends) ELSE Len(text)))

\* The text "S xE" with the markers "S" and "E" gives "x"
C18_Witness ==
    /\ arg = [text |-> <<"S", " ", "x", "E">>, startString |-> <<"S">>, endString |-> <<"E">>]
    /\ ret = <<Str(<<"x">>)>>

\* C19: the numeric fields of a Transaction are never NaN: an amount, total
\* or balance text that is no number gives null
C19_NoNaN ==
    ret # <<>> =>
        /\ ret[1].amount # NaN
        /\ ret[1].totalAmount # NaN
        /\ ret[1].currentBalance # NaN

\* One or two digits written with two digits
TwoDigits(s) == IF Len(s) = 1 THEN <<"0">> \o s ELSE s

\* C20: every version of extractFromPdf turns "a/b/yyyy, h:mm:ss AM" into
\* the date yyyy-MM-DD whose month is the first component a and whose day is
\* the second component b, both with two digits, and the time h:mm:ss AM
C20_MonthFirst ==
    ret # <<>> /\ arg.t = "datetext" /\ arg.clock # Null =>
        /\ ret[1].date = Str(arg.year \o <<"-">> \o TwoDigits(arg.a) \o <<"-">> \o TwoDigits(arg.b))
        /\ ret[1].time = arg.clock

\* C21: when the date and time text was found and holds no date of the
\* expected shape, every version of extractFromPdf gives null for both date
\* and time; no version gives a time with a null date, or undefined for
\* either
C21_DateAndTimeNullTogether ==
    ret # <<>> =>
        /\ arg # Null /\ arg.t # "datetext" => ret[1].date = Null /\ ret[1].time = Null
        /\ ret[1].date = Null => ret[1].time = Null
        /\ ret[1].date # Undefined /\ ret[1].time # Undefined

\* The name the claim gives: the trimmed text from the end of the label to the
\* next Account delimiter after the label, or else to the next line break
NameAfter(text, label) ==
    LET start == IndexOf(text, label, 0)
        from == start + Len(label)
        account == IndexOf(text, AccountString, from)
        break == IndexOf(text, LineBreak, from)
    IN IF start = -1 THEN Null
       ELSE IF account # -1 THEN Str(TrimWhite(Substring(text, from, account)))
       ELSE IF break # -1 THEN Str(TrimWhite(Substring(text, from, break)))
       ELSE Null

\* C22: in every version of extractPayerReceiver the name is the trimmed text
\* from the end of the label to the next two-space Account delimiter after
\* it, or to the next line break when no such delimiter follows, and null
\* only when the label is absent or neither delimiter follows
C22_NameUpToAccountOrLineBreak ==
    ret # <<>> => ret[1].name = NameAfter(arg.text, ret[1].label)

\* The number of places of s that hold x
CountOf(s, x) == Cardinality({ i \in 1..Len(s) : s[i] = x })

IsPermutation(s, t) ==
    /\ Len(s) = Len(t)
    /\ \A i \in 1..Len(s) : CountOf(s, s[i]) = CountOf(t, s[i])

\* C23: sortData never changes its input, whatever the key (the empty key
\* included) and the direction: after the call the input holds the same
\* elements in the same order, and the result is a permutation of it
C23_SortDataLeavesInput ==
    ret # <<>> =>
        /\ ret[1].heap["data"] = arg.data
        /\ IsPermutation(ret[1].heap[ret[1].ref], arg.data)

\* A call with a key that put the rows in another order
C23_Reordered ==
    /\ ret # <<>>
    /\ arg.sortColumn # ""
    /\ ret[1].heap[ret[1].ref] # arg.data
    /\ ret[1].heap["data"] = arg.data

\* The values of the key are pairwise distinct and comparable
DistinctComparable(data, column) ==
    \A i, j \in 1..Len(data) :
        i # j => \/ LessThan(SortValue(data[i], column), SortValue(data[j], column))
                 \/ LessThan(SortValue(data[j], column), SortValue(data[i], column))

\* C24: sorting the result again with the same key and direction gives the
\* result, and when the values of the key are pairwise distinct and
\* comparable the descending result is the reverse of the ascending one
C24_SortDataIdempotent ==
    ret # <<>> =>
        LET result == ret[1].heap[ret[1].ref]
        IN /\ SortData(ret[1].engine, result, arg.sortColumn, arg.sortDirection) = result
           /\ DistinctComparable(arg.data, arg.sortColumn) =>
                 SortData(ret[1].engine, arg.data, arg.sortColumn, "desc")
                    = Reverse(SortData(ret[1].engine, arg.data, arg.sortColumn, "asc"))

\* A descending sort of three or more rows with distinct, comparable values
\* of the key, which put them in another order
C24_SortedDescending ==
    /\ ret # <<>>
    /\ arg.sortColumn # ""
    /\ arg.sortDirection = "desc"
    /\ Len(arg.data) >= 3
    /\ DistinctComparable(arg.data, arg.sortColumn)
    /\ ret[1].heap[ret[1].ref] # arg.data

\* C26: the currentBalance of every Transaction processFile emits is a number
\* or null, never undefined, so the Current Balance card, which reads the
\* first transaction's, shows that number or N/A and never fails
C26_BalanceNumberOrNull ==
    /\ \A r \in Runs : \A i \in 1..Len(transactions[r]) :
          transactions[r][i].currentBalance.t \in {"num", "NaN", "null"}
    /\ \A i \in 1..Len(appTransactions) :
          appTransactions[i].currentBalance.t \in {"num", "NaN", "null"}
    /\ CurrentBalanceCard(appTransactions) # TypeError

\* Run r has passed the name check and has not ended
Active(r) == pc[r] \in {"reading", "loop", "fetching"}

\* C29: every processFile call that passes the .json name check ends, and
\* ends by setting loading to false and progress to 0, whichever way it takes
\* (transactions found, none found, no array, an exception), given that each
\* fetchContent call returns; a file without the .json suffix is rejected
\* before loading is set and before the transaction list is cleared
C29_RunEndsNotLoading ==
    /\ \A r \in Runs : Active(r) ~> (pc[r] = "done")
    /\ [][\A r \in Runs : Active(r) /\ pc'[r] = "done" =>
              /\ loading' = FALSE
              /\ progress' = 0
              /\ Last(progressCalls'[r]) = 0]_vars
    /\ [][\A r \in Runs : pc[r] = "idle" /\ pc'[r] = "rejected" =>
              /\ loading' = loading
              /\ appTransactions' = appTransactions
              /\ txCalls'[r] = <<>>
              /\ progressCalls'[r] = <<>>]_vars

\* A file without the suffix was rejected, and a later run that fetched a
\* receipt has ended
C29_RejectedAndEnded ==
    \E q, r \in Runs :
        /\ pc[q] = "rejected"
        /\ pc[r] = "done"
        /\ fetched[r] # <<>>
        /\ loading = FALSE
        /\ progress = 0

\* The date d is a calendar date on or after (on or before) the bound
OnOrAfter(d, bound) ==
    d.t = "date" /\ ~IsInvalidDate(d) /\ DateTime(d) >= DateTime(bound)

OnOrBefore(d, bound) ==
    d.t = "date" /\ ~IsInvalidDate(d) /\ DateTime(d) <= DateTime(bound)

InRange(tx) ==
    /\ filterStart = Str("") \/ OnOrAfter(tx.date, filterStart)
    /\ filterEnd = Str("") \/ OnOrBefore(tx.date, filterEnd)

\* C25: the date filter of the transaction table keeps a transaction exactly
\* when no start bound is set or its date is on or after the start bound,
\* and no end bound is set or its date is on or before the end bound; the
\* rows sorted are the rows kept
C25_InclusiveDateRange ==
    component = "TransactionTable" =>
        /\ FilteredTransactions = SelectSeq(tableTransactions, InRange)
        /\ \A engine \in Engines :
              IsPermutation(SortedTransactions(engine),
                            SelectSeq(tableTransactions, InRange))

\* C27: a click on the header of the current sort column turns the direction
\* and leaves the column, a click on another header makes it the sort column
\* with direction asc, and of two clicks in a row on one header the second
\* ends in the direction opposite to the first's
C27_HandleSort ==
    /\ [][lastClick'.column # "" =>
              IF lastClick'.column = sortColumn
              THEN /\ sortColumn' = sortColumn
                   /\ sortDirection' = (IF sortDirection = "asc" THEN "desc" ELSE "asc")
              ELSE /\ sortColumn' = lastClick'.column
                   /\ sortDirection' = "asc"]_vars
    /\ [](lastClick.repeat =>
              /\ sortDirection \in {"asc", "desc"}
              /\ sortDirection # lastClick.before)

\* Two clicks in a row on the header of a column that was not the sort column
C27_ClickedTwice ==
    /\ lastClick.repeat
    /\ lastClick.column # InitialSortColumn(component)
    /\ sortColumn = lastClick.column
    /\ sortDirection = "desc"

\* C28: whatever the clicks on Next and Previous, the changes of rows per
\* page and of the date filters and the replacements of the list, the current
\* page is between 1 and max(1, totalPages), so the page shown has rows
\* whenever the filtered list has
C28_PageInRange ==
    component = "TransactionTable" =>
        /\ 1 <= currentPage
        /\ currentPage <= (IF TotalPages > 1 THEN TotalPages ELSE 1)
        /\ Len(FilteredTransactions) > 0 =>
              \A engine \in Engines : Len(PagedTransactions(engine)) > 0

\* Row a is one of the 25 groups of largest summed amount: fewer than 25
\* rows have a larger amount
AmongTop(a, rows) ==
    Cardinality({ j \in 1..Len(rows) : rows[j].amount.v > a.amount.v }) < TableLimit

\* C30: after any clicks on the headers a Top table shows at most 25 rows,
\* each of them one of the 25 groups of largest summed amount
C30_TopTwentyFive ==
    component \in TopTables =>
        \A engine \in Engines :
            /\ Len(DisplayedRows(engine)) <= TableLimit
            /\ \A i \in 1..Len(DisplayedRows(engine)) :
                  AmongTop(DisplayedRows(engine)[i], TopRows)

====
